---- MODULE Spec2Model ----
(***************************************************************************)
(* Verification model of the Sentinal write-ahead log, execution engine    *)
(* and safe I/O layer (src-tauri/src/execution, src-tauri/src/wal,         *)
(* src-tauri/src/security).                                                *)
(***************************************************************************)
EXTENDS Integers, Sequences, FiniteSets, TLC

VARIABLES
    disk,   \* the filesystem the operations act on
    opt,    \* one operation applied to a filesystem, once and again
    plan,   \* the journal's entries: operation and depends_on of each
    journal,\* the persisted journal file: status and error of each entry
    run,    \* the executor: execute_journal / execute_dag / execute_entry
    task,   \* the tokio task of each entry: position, loaded journal, result
    hist,   \* what each task has done so far in this run, in order
    iofail, \* journal persistence failures so far
    store,  \* the WAL directory: names, inodes, and what of them is durable
    aw,     \* the process calling atomic_write and its calls
    dg,     \* one call of ExecutionDAG::from_entries: input, position, result
    bld,    \* a journal under construction: its entries and their depends_on
    vfs,    \* the shadow VFS: nodes, staged operations, last result
    rv,     \* the rule planner's VFS: files, planned operations, last result
    call    \* one call of a path check: its arguments and its result

(***************************************************************************)
(* Paths.  A path is the sequence of its components; <<>> is "/".          *)
(* The universe is prefix closed.  <<"h">> is the user's home directory,   *)
(* <<"S">> stands for the listed system directories (/System, /usr, ...).  *)
(***************************************************************************)
Names == {"A", "x", "y"}

Paths ==
    {<<>>, <<"S">>, <<"S", "f">>, <<"h">>}
        \cup {<<"h", n>> : n \in Names}
        \cup {<<"h", n, m>> : n \in Names, m \in {"x", "y"}}

NoPath == <<"-">>

parent(p) == SubSeq(p, 1, Len(p) - 1)

join(p, n) == Append(p, n)

\* Path::starts_with: base is a component-wise prefix of p (p = base included).
starts_with(p, base) ==
    /\ Len(base) <= Len(p)
    /\ SubSeq(p, 1, Len(base)) = base

\* p with its prefix from replaced by to (p lies under from).
rebase(p, from, to) == to \o SubSeq(p, Len(from) + 1, Len(p))

home_dir == <<"h">>

protected_paths == << <<>>, <<"S">> >>

RECURSIVE protected_scan(_, _)
protected_scan(p, i) ==
    IF i > Len(protected_paths)
    THEN p = home_dir
    ELSE LET protected == protected_paths[i] IN
         IF p = protected THEN TRUE
         ELSE IF starts_with(p, protected) /\ starts_with(p, home_dir) THEN FALSE
         ELSE IF starts_with(p, protected) /\ parent(p) = protected THEN TRUE
         ELSE protected_scan(p, i + 1)

is_protected_path(p) == protected_scan(p, 1)

(***************************************************************************)
(* The filesystem: a function from Paths to "none", "dir" or the identity  *)
(* of a regular file's contents.                                           *)
(***************************************************************************)
FileIds == {"f1", "f2"}

\* A symbolic link to a regular file that lies outside Paths, in no protected
\* place, and is never touched.
Link == "link"

\* The contents of the file the link points to.
LinkTarget == "f2"

Nodes == {"none", "dir", Link} \cup FileIds

\* is_symlink: lstat says symbolic link.
is_symlink(fs, p) == p \in Paths /\ fs[p] = Link

\* fs::copy follows a link: the copy is a regular file.
copied(node) == IF node = Link THEN LinkTarget ELSE node

exists(fs, p) == p \in Paths /\ fs[p] # "none"

is_dir(fs, p) == p \in Paths /\ fs[p] = "dir"

\* Every existing entry sits in an existing directory.
WellFormed(fs) ==
    /\ fs[<<>>] = "dir"
    /\ \A p \in Paths \ {<<>>} : fs[p] # "none" => fs[parent(p)] = "dir"

\* The proper ancestors of p and p itself, root excluded.
Chain(p) == {SubSeq(p, 1, i) : i \in 1..Len(p)}

\* fs::create_dir_all: fails when a component exists and is no directory.
create_dir_all_ok(fs, p) == \A q \in Chain(p) : fs[q] \in {"none", "dir"}

create_dir_all(fs, p) == [q \in Paths |-> IF q \in Chain(p) THEN "dir" ELSE fs[q]]

\* The subtree of s moves to d.
rename_fs(fs, s, d) ==
    [q \in Paths |->
        IF starts_with(q, d)
        THEN (IF rebase(q, d, s) \in Paths THEN fs[rebase(q, d, s)] ELSE "none")
        ELSE IF starts_with(q, s) THEN "none" ELSE fs[q]]

\* fs::rename(s, d) with s existing and d absent: d's parent must be a
\* directory and d must not lie inside s.
rename_ok(fs, s, d) ==
    /\ Len(d) > 0
    /\ is_dir(fs, parent(d))
    /\ ~starts_with(d, s)

\* copy_dir_all / fs::copy: the subtree of s is duplicated at d.
copy_dir_all(fs, s, d) ==
    [q \in Paths |->
        IF starts_with(q, d) /\ rebase(q, d, s) \in Paths /\ ~starts_with(rebase(q, d, s), d)
        THEN copied(fs[rebase(q, d, s)])
        ELSE fs[q]]

\* A removal that removes nothing.
remove_nothing(fs, p) == fs

remove_all(fs, p) == [q \in Paths |-> IF starts_with(q, p) THEN "none" ELSE fs[q]]

(***************************************************************************)
(* WAL operations.  a is path / source, b is destination / quarantine      *)
(* path, n is new_name.                                                    *)
(***************************************************************************)
CreateFolder(p) == [kind |-> "CreateFolder", a |-> p, b |-> NoPath, n |-> ""]
Move(s, d) == [kind |-> "Move", a |-> s, b |-> d, n |-> ""]
Rename(p, nn) == [kind |-> "Rename", a |-> p, b |-> NoPath, n |-> nn]
Quarantine(p, q) == [kind |-> "Quarantine", a |-> p, b |-> q, n |-> ""]
Copy(s, d) == [kind |-> "Copy", a |-> s, b |-> d, n |-> ""]
DeleteFolder(p) == [kind |-> "DeleteFolder", a |-> p, b |-> NoPath, n |-> ""]

Ok(fs) == [ok |-> TRUE, err |-> "", fs |-> fs]
Err(msg, fs) == [ok |-> FALSE, err |-> msg, fs |-> fs]

\* No result yet.
NoResult == [ok |-> FALSE, err |-> "-", fs |-> <<>>]

exec_create_folder(fs, path) ==
    IF exists(fs, path) THEN Ok(fs)
    ELSE IF create_dir_all_ok(fs, path) THEN Ok(create_dir_all(fs, path))
    ELSE Err("Failed to create folder", fs)

\* Move with the source present.  xdev: fs::rename fails although the paths
\* are fine (source and destination on different devices), which takes the
\* copy-then-delete fallback.
exec_move_present(fs, source, destination, xdev) ==
    IF exists(fs, destination) THEN Err("Destination already exists", fs)
    ELSE IF is_protected_path(source) THEN Err("Cannot move protected path", fs)
    ELSE IF ~exists(fs, parent(destination)) /\ ~create_dir_all_ok(fs, parent(destination))
    THEN Err("Failed to create destination directory", fs)
    ELSE LET fs1 == IF exists(fs, parent(destination)) THEN fs
                    ELSE create_dir_all(fs, parent(destination)) IN
         IF rename_ok(fs1, source, destination) /\ ~xdev
         THEN Ok(rename_fs(fs1, source, destination))
         ELSE IF ~is_dir(fs1, parent(destination)) THEN Err("Failed to copy", fs1)
         ELSE IF starts_with(destination, source)
         \* copy of a directory into itself: the recursion runs until the path
         \* is too long; the part of it inside the universe is kept
         THEN Err("Failed to create directory", create_dir_all(fs1, destination))
         ELSE Ok(remove_all(copy_dir_all(fs1, source, destination), source))

\* exec_move without the replay branch: a missing source is always an error.
exec_move_no_replay(fs, source, destination, xdev) ==
    IF ~exists(fs, source) THEN Err("Source not found", fs)
    ELSE exec_move_present(fs, source, destination, xdev)

exec_move(fs, source, destination, xdev) ==
    IF ~exists(fs, source)
    THEN (IF exists(fs, destination) THEN Ok(fs) ELSE Err("Source not found", fs))
    ELSE exec_move_present(fs, source, destination, xdev)

exec_rename(fs, path, new_name) ==
    IF ~exists(fs, path) THEN Err("Path not found", fs)
    ELSE IF Len(path) = 0 THEN Err("Cannot determine parent", fs)
    ELSE LET new_path == join(parent(path), new_name) IN
         IF exists(fs, new_path) THEN Err("Target already exists", fs)
         ELSE IF is_protected_path(path) THEN Err("Cannot rename protected path", fs)
         ELSE IF rename_ok(fs, path, new_path)
         THEN Ok(rename_fs(fs, path, new_path))
         ELSE Err("Failed to rename", fs)

exec_copy(fs, source, destination) ==
    IF ~exists(fs, source) THEN Err("Source not found", fs)
    ELSE IF exists(fs, destination) THEN Err("Destination already exists", fs)
    ELSE IF ~exists(fs, parent(destination)) /\ ~create_dir_all_ok(fs, parent(destination))
    THEN Err("Failed to create destination directory", fs)
    ELSE LET fs1 == IF exists(fs, parent(destination)) THEN fs
                    ELSE create_dir_all(fs, parent(destination)) IN
         IF ~is_dir(fs1, parent(destination)) THEN Err("Failed to copy", fs1)
         ELSE IF starts_with(destination, source)
         THEN Err("Failed to create directory", create_dir_all(fs1, destination))
         ELSE Ok(copy_dir_all(fs1, source, destination))

exec_delete_folder(fs, path) ==
    IF ~exists(fs, path) THEN Ok(fs)
    ELSE IF is_protected_path(path) THEN Err("Cannot delete protected path", fs)
    ELSE Ok(remove_all(fs, path))

execute_operation_sync(op, fs, xdev) ==
    CASE op.kind = "CreateFolder" -> exec_create_folder(fs, op.a)
      [] op.kind = "Move" -> exec_move(fs, op.a, op.b, xdev)
      [] op.kind = "Rename" -> exec_rename(fs, op.a, op.n)
      [] op.kind = "Quarantine" -> exec_move(fs, op.a, op.b, xdev)
      [] op.kind = "Copy" -> exec_copy(fs, op.a, op.b)
      [] op.kind = "DeleteFolder" -> exec_delete_folder(fs, op.a)

execVars == <<plan, journal, run, task, hist, iofail>>

(***************************************************************************)
(* The journal and the execution DAG.                                      *)
(***************************************************************************)
\* The entries of the journal, named by their sequence numbers.
Entries == {1, 2, 3}

Pending == [status |-> "Pending", error |-> ""]

set_status(j, e, st, msg) == [j EXCEPT ![e] = [status |-> st, error |-> msg]]

\* No filter: a run processes every entry of the journal.
every_entry(j) == Entries

\* execute_journal's filter: the entries a run processes.
pending_entries(j) == {e \in Entries : j[e].status \in {"Pending", "InProgress"}}

\* deps restricted to the nodes of the graph.
RECURSIVE reach(_, _, _, _)
reach(n, deps, nodes, k) ==
    IF k = 0 THEN {}
    ELSE LET d == deps[n] \cap nodes IN
         d \cup UNION {reach(m, deps, nodes, k - 1) : m \in d}

\* The orders of the nodes, each node once.
Orders(nodes) ==
    {s \in [1..Cardinality(nodes) -> nodes] : \A i \in DOMAIN s : \A j \in DOMAIN s : i # j => s[i] # s[j]}

\* A dependency may come at or after its dependent's own place.
is_topological_weak(s, deps) == \A i \in DOMAIN s : \A j \in DOMAIN s : s[j] \in deps[s[i]] => j <= i

\* Every dependency comes before its dependents.
is_topological(s, deps) == \A i \in DOMAIN s : \A j \in DOMAIN s : s[j] \in deps[s[i]] => j < i

\* petgraph toposort: the orders it may return, none when there is a cycle.
toposort(nodes, deps) == {s \in Orders(nodes) : is_topological(s, deps)}

\* toposort(&graph, None).is_err()
has_cycle(nodes, deps) == toposort(nodes, deps) = {}

SetMax(S) == CHOOSE x \in S : \A y \in S : y <= x

\* The level by definition: the longest chain of dependencies below a node.
RECURSIVE node_level(_, _)
node_level(n, deps) ==
    IF deps[n] = {} THEN 0
    ELSE 1 + SetMax({node_level(m, deps) : m \in deps[n]})

\* The level of the highest dependency, not one more.
same_level(l) == l

\* max_dep_level.map_or(0, |l| l + 1)
next_level(l) == l + 1

\* One more than the level of the lowest dependency.
assign_level_min(node_levels, n, nodes, deps) ==
    LET incoming == deps[n] \cap nodes
        lv(m) == IF m \in DOMAIN node_levels THEN node_levels[m] ELSE 0
    IN
    IF incoming = {} THEN 0 ELSE 1 + (CHOOSE x \in {lv(m) : m \in incoming} : \A m \in incoming : x <= lv(m))

\* compute_levels, the body of the loop over the sorted nodes: the level of n,
\* given the levels assigned so far (a neighbor without one counts as 0).
assign_level(node_levels, n, nodes, deps) ==
    LET incoming == deps[n] \cap nodes
        lv(m) == IF m \in DOMAIN node_levels THEN node_levels[m] ELSE 0
    IN
    IF incoming = {} THEN 0 ELSE next_level(SetMax({lv(m) : m \in incoming}))

RECURSIVE assign_levels(_, _, _, _, _)
assign_levels(sorted, i, node_levels, nodes, deps) ==
    IF i > Len(sorted) THEN node_levels
    ELSE assign_levels(sorted, i + 1,
                       (sorted[i] :> assign_level(node_levels, sorted[i], nodes, deps)) @@ node_levels,
                       nodes, deps)

\* compute_levels, grouping: vec![Vec::new(); max_level + 1], each node pushed
\* to the level it was given.
group_levels(node_levels) ==
    LET max_level == IF DOMAIN node_levels = {} THEN 0
                     ELSE SetMax({node_levels[n] : n \in DOMAIN node_levels})
    IN
    [i \in 1..(max_level + 1) |-> {n \in DOMAIN node_levels : node_levels[n] = i - 1}]

\* compute_levels, for an order toposort returns.
compute_levels(nodes, deps) ==
    LET sorted == CHOOSE t \in toposort(nodes, deps) : TRUE IN
    group_levels(assign_levels(sorted, 1, <<>>, nodes, deps))

\* from_entries without the lookup of each dependency: a dependency that is
\* not among the entries is passed over.
from_present_entries(nodes, deps) ==
    IF nodes = {} THEN [err |-> "EmptyGraph", levels |-> <<>>]
    ELSE IF has_cycle(nodes, deps) THEN [err |-> "CycleDetected", levels |-> <<>>]
    ELSE [err |-> "", levels |-> compute_levels(nodes, deps)]

\* ExecutionDAG::from_entries on the entries `nodes`.
from_entries(nodes, deps) ==
    IF nodes = {} THEN [err |-> "EmptyGraph", levels |-> <<>>]
    ELSE IF \E n \in nodes : deps[n] \ nodes # {}
    THEN [err |-> "DependencyNotFound", levels |-> <<>>]
    ELSE IF has_cycle(nodes, deps) THEN [err |-> "CycleDetected", levels |-> <<>>]
    ELSE [err |-> "", levels |-> compute_levels(nodes, deps)]

(***************************************************************************)
(* The executor.                                                           *)
(***************************************************************************)
MaxIoFailures == 1

RunIdle == [pc |-> "idle", mode |-> "", lvl |-> 0, levels |-> <<>>, loaded |-> <<>>,
            level_completed |-> 0, level_failed |-> 0,
            completed |-> 0, failed |-> 0, errors |-> <<>>, ret |-> "",
            restarted |-> FALSE, undone |-> <<>>]

TaskIdle == [pc |-> "idle", local |-> <<>>, res |-> NoResult]

AwIdle ==
    /\ store = <<>>
    /\ aw = <<>>

ExecIdle ==
    /\ run = RunIdle
    /\ task = [e \in Entries |-> TaskIdle]
    /\ hist = [e \in Entries |-> <<>>]
    /\ iofail = 0

awVars == <<store, aw>>

moreVars == <<rv, call>>

\* No rule planner and no path check in use.
MoreIdle ==
    /\ rv = <<>>
    /\ call = <<>>

auxVars == <<dg, bld, vfs, rv, call>>

\* No DAG call, journal construction or VFS in use.
AuxIdle ==
    /\ dg = <<>>
    /\ bld = <<>>
    /\ vfs = <<>>
    /\ MoreIdle

vars == <<disk, opt, plan, journal, run, task, hist, iofail, store, aw, dg, bld, vfs, rv, call>>

\* The level an entry was placed in, 0 when it is in none.
LevelOf(e) ==
    IF \E i \in 1..Len(run.levels) : e \in run.levels[i]
    THEN CHOOSE i \in 1..Len(run.levels) : e \in run.levels[i]
    ELSE 0

\* execute_journal: load, filter, build the DAG.
execute_journal ==
    /\ run.pc = "idle"
    /\ LET pend == pending_entries(journal)
           dag == from_entries(pend, plan.deps)
           r0 == [RunIdle EXCEPT !.mode = "journal", !.loaded = journal,
                                 !.restarted = run.restarted]
       IN
       run' = IF pend = {} THEN [r0 EXCEPT !.pc = "done", !.ret = "success"]
              ELSE IF dag.err # "" THEN [r0 EXCEPT !.pc = "done", !.ret = dag.err]
              ELSE [r0 EXCEPT !.pc = "level", !.lvl = 1, !.levels = dag.levels]
    /\ task' = [e \in Entries |-> TaskIdle]
    /\ hist' = [e \in Entries |-> <<>>]
    /\ UNCHANGED <<disk, opt, plan, journal, iofail, awVars, auxVars>>

\* execute_level, the spawn loop: one task per entry of the level.
spawn_level ==
    /\ run.pc = "level"
    /\ task' = [e \in Entries |->
                  IF e \in run.levels[run.lvl] THEN [TaskIdle EXCEPT !.pc = "spawned"]
                  ELSE task[e]]
    /\ run' = [run EXCEPT !.pc = "join", !.level_completed = 0, !.level_failed = 0]
    /\ UNCHANGED <<disk, opt, plan, journal, hist, iofail, awVars, auxVars>>

\* mark_entry_in_progress, first half: load the journal.
mark_in_progress_load(e) ==
    /\ task[e].pc = "spawned"
    /\ task' = [task EXCEPT ![e].pc = "ip_loaded", ![e].local = journal]
    /\ UNCHANGED <<disk, opt, plan, journal, run, hist, iofail, awVars, auxVars>>

\* mark_entry_in_progress, second half: save the journal with the entry's
\* status changed.
mark_in_progress_save(e) ==
    /\ task[e].pc = "ip_loaded"
    /\ journal' = set_status(task[e].local, e, "InProgress", "")
    /\ task' = [task EXCEPT ![e].pc = "marked", ![e].local = <<>>]
    /\ hist' = [hist EXCEPT ![e] = Append(@, "ip")]
    /\ UNCHANGED <<disk, opt, plan, run, iofail, awVars, auxVars>>

\* mark_entry_in_progress returns Err in a task of execute_level: the task
\* logs the error and goes on.
mark_in_progress_fails(e) ==
    /\ run.mode = "journal"
    /\ task[e].pc \in {"spawned", "ip_loaded"}
    /\ iofail < MaxIoFailures
    /\ iofail' = iofail + 1
    /\ task' = [task EXCEPT ![e].pc = "marked", ![e].local = <<>>]
    /\ hist' = [hist EXCEPT ![e] = Append(@, "ip_fail")]
    /\ UNCHANGED <<disk, opt, plan, journal, run, awVars, auxVars>>

\* execute_operation: the filesystem operation of the entry.
execute_operation(e) ==
    /\ task[e].pc = "marked"
    /\ \E xdev \in BOOLEAN :
        LET r == execute_operation_sync(plan.ops[e], disk, xdev) IN
        /\ disk' = r.fs
        /\ task' = [task EXCEPT ![e].pc = "executed", ![e].res = [r EXCEPT !.fs = <<>>]]
    /\ hist' = [hist EXCEPT ![e] = Append(@, "op")]
    /\ UNCHANGED <<opt, plan, journal, run, iofail, awVars, auxVars>>

\* mark_entry_complete / mark_entry_failed, first half: load the journal.
mark_final_load(e) ==
    /\ task[e].pc = "executed"
    /\ task' = [task EXCEPT ![e].pc = "fin_loaded", ![e].local = journal]
    /\ UNCHANGED <<disk, opt, plan, journal, run, hist, iofail, awVars, auxVars>>

\* The match on the operation's result: Completed on Ok, Failed on Err.
final_always_completed(res) == "Completed"

final_status(res) == IF res.ok THEN "Completed" ELSE "Failed"

\* Every result is counted as a completed operation.
count_as_completed(r, res) == [r EXCEPT !.level_completed = @ + 1]

\* The shared counters and error list of the level, after a task's result.
count_result(r, res) ==
    IF res.ok THEN [r EXCEPT !.level_completed = @ + 1]
    ELSE [r EXCEPT !.level_failed = @ + 1, !.errors = Append(@, res.err)]

\* mark_entry_complete / mark_entry_failed, second half: save the journal;
\* then the task counts its result and ends.
mark_final_save(e) ==
    /\ task[e].pc = "fin_loaded"
    /\ journal' = set_status(task[e].local, e, final_status(task[e].res), task[e].res.err)
    /\ task' = [task EXCEPT ![e].pc = "done", ![e].local = <<>>]
    /\ hist' = [hist EXCEPT ![e] = Append(@, IF final_status(task[e].res) = "Completed"
                                               THEN "fin_C" ELSE "fin_F")]
    /\ run' = IF run.mode = "journal" THEN count_result(run, task[e].res)
              ELSE [run EXCEPT !.pc = "done",
                               !.ret = IF task[e].res.ok THEN "ok" ELSE task[e].res.err]
    /\ UNCHANGED <<disk, opt, plan, iofail, awVars, auxVars>>

\* mark_entry_complete / mark_entry_failed returns Err in a task of
\* execute_level: the task logs the error, counts its result and ends.
mark_final_fails(e) ==
    /\ run.mode = "journal"
    /\ task[e].pc \in {"executed", "fin_loaded"}
    /\ iofail < MaxIoFailures
    /\ iofail' = iofail + 1
    /\ task' = [task EXCEPT ![e].pc = "done", ![e].local = <<>>]
    /\ hist' = [hist EXCEPT ![e] = Append(@, "fin_fail")]
    /\ run' = count_result(run, task[e].res)
    /\ UNCHANGED <<disk, opt, plan, journal, awVars, auxVars>>

\* execute_level's await loop is through: every handle of the level has
\* been joined.
any_joined(level) == \E e \in level : task[e].pc = "done"

level_joined(level) == \A e \in level : task[e].pc = "done"

\* execute_dag goes on to the next level.
ignore_failures(failed) == TRUE

next_level_allowed(failed) == failed = 0

\* execute_level returns to execute_dag, which adds the level's counts and
\* either goes on, breaks, or is through.
join_level ==
    /\ run.pc = "join"
    /\ level_joined(run.levels[run.lvl])
    /\ LET r1 == [run EXCEPT !.completed = @ + run.level_completed,
                             !.failed = @ + run.level_failed]
       IN
       run' = IF next_level_allowed(run.level_failed) /\ run.lvl < Len(run.levels)
              THEN [r1 EXCEPT !.pc = "level", !.lvl = @ + 1]
              ELSE [r1 EXCEPT !.pc = "done",
                              !.ret = IF r1.failed = 0 THEN "success" ELSE "partial"]
    /\ UNCHANGED <<disk, opt, plan, journal, task, hist, iofail, awVars, auxVars>>

\* execute_entry(entry): one entry, outside any DAG.
execute_entry(e) ==
    /\ run.pc = "idle"
    /\ run' = [RunIdle EXCEPT !.pc = "entry", !.mode = "entry", !.loaded = journal,
                              !.restarted = run.restarted]
    /\ task' = [x \in Entries |-> IF x = e THEN [TaskIdle EXCEPT !.pc = "spawned"] ELSE TaskIdle]
    /\ hist' = [x \in Entries |-> <<>>]
    /\ UNCHANGED <<disk, opt, plan, journal, iofail, awVars, auxVars>>

\* A mark_entry_* call of execute_entry returns Err: `?` returns it.
entry_mark_fails(e) ==
    /\ run.mode = "entry"
    /\ task[e].pc \in {"spawned", "ip_loaded", "executed", "fin_loaded"}
    /\ iofail < MaxIoFailures
    /\ iofail' = iofail + 1
    /\ hist' = [hist EXCEPT ![e] = Append(@, IF task[e].pc \in {"spawned", "ip_loaded"}
                                               THEN "ip_fail" ELSE "fin_fail")]
    /\ task' = [task EXCEPT ![e].pc = "done", ![e].local = <<>>]
    /\ run' = [run EXCEPT !.pc = "done", !.ret = "journal error"]
    /\ UNCHANGED <<disk, opt, plan, journal, awVars, auxVars>>

\* The steps of a task when the journal file can be written.
task_run(e) ==
    \/ mark_in_progress_load(e)
    \/ mark_in_progress_save(e)
    \/ execute_operation(e)
    \/ mark_final_load(e)
    \/ mark_final_save(e)

task_step(e) ==
    \/ task_run(e)
    \/ mark_in_progress_fails(e)
    \/ mark_final_fails(e)
    \/ entry_mark_fails(e)

(***************************************************************************)
(* Specification SpecOps: one operation, executed and then re-executed, on *)
(* every filesystem of a bounded family.                                   *)
(***************************************************************************)

\* What <<"h", n>> holds: nothing, a file, an empty directory, or a
\* directory with the child x or the child y.
Shapes == {"none", "file", "link", "dir", "dirx", "diry"}

FsOf(sh, sf) ==
    [q \in Paths |->
        IF q \in {<<>>, <<"S">>, <<"h">>} THEN "dir"
        ELSE IF q = <<"S", "f">> THEN sf
        ELSE IF Len(q) = 2
        THEN (CASE sh[q[2]] = "none" -> "none"
                [] sh[q[2]] = "file" -> (IF q[2] = "y" THEN "f2" ELSE "f1")
                [] sh[q[2]] = "link" -> Link
                [] OTHER -> "dir")
        ELSE IF sh[q[2]] = "dirx" /\ q[3] = "x" THEN "f1"
        ELSE IF sh[q[2]] = "diry" /\ q[3] = "y" THEN "f2"
        ELSE "none"]

FsFamily == {FsOf(sh, sf) : sh \in [Names -> Shapes], sf \in {"none", "f2"}}

OpFamily ==
    {CreateFolder(p) : p \in Paths}
        \cup {DeleteFolder(p) : p \in Paths}
        \cup {Move(s, d) : s \in Paths, d \in Paths}
        \cup {Copy(s, d) : s \in Paths, d \in Paths}
        \cup {Rename(p, nn) : p \in Paths, nn \in Names}
        \cup {Quarantine(<<"h", "x">>, q) : q \in {<<"h", "A">>, <<"h", "A", "x">>}}

\* The operation's result stays inside the path universe.
Fits(f, op) ==
    /\ (op.kind = "Rename" /\ Len(op.a) > 0) => join(parent(op.a), op.n) \in Paths
    /\ op.kind \in {"Move", "Copy", "Quarantine"} =>
          \A q \in Paths : starts_with(q, op.a) /\ f[q] # "none" => rebase(q, op.a, op.b) \in Paths

OptOff == [pc |-> "off", op |-> CreateFolder(NoPath), xdev |-> FALSE, fs0 |-> <<>>,
           fs1 |-> <<>>, r1 |-> NoResult, r2 |-> NoResult]

InitOps ==
    \E f \in FsFamily, op \in OpFamily, xd \in BOOLEAN :
        /\ Fits(f, op)
        /\ xd => op.kind \in {"Move", "Quarantine"}
        /\ disk = f
        /\ opt = [pc |-> "start", op |-> op, xdev |-> xd, fs0 |-> f, fs1 |-> <<>>,
                  r1 |-> NoResult, r2 |-> NoResult]
    /\ plan = <<>>
    /\ journal = <<>>
    /\ ExecIdle
    /\ AwIdle
    /\ AuxIdle

ExecuteOnce ==
    /\ opt.pc = "start"
    /\ LET r == execute_operation_sync(opt.op, disk, opt.xdev) IN
        /\ disk' = r.fs
        /\ opt' = [opt EXCEPT !.pc = "once", !.fs1 = r.fs, !.r1 = [r EXCEPT !.fs = <<>>]]
    /\ UNCHANGED <<execVars, awVars, auxVars>>

ExecuteAgain ==
    /\ opt.pc = "once"
    /\ LET r == execute_operation_sync(opt.op, disk, opt.xdev) IN
        /\ disk' = r.fs
        /\ opt' = [opt EXCEPT !.pc = "twice", !.r2 = [r EXCEPT !.fs = <<>>]]
    /\ UNCHANGED <<execVars, awVars, auxVars>>

\* After a Move that succeeded, the Move the other way round.
ExecuteBack ==
    /\ opt.pc = "once"
    /\ opt.op.kind = "Move"
    /\ opt.r1.ok
    /\ LET r == execute_operation_sync(Move(opt.op.b, opt.op.a), disk, opt.xdev) IN
        /\ disk' = r.fs
        /\ opt' = [opt EXCEPT !.pc = "back", !.r2 = [r EXCEPT !.fs = <<>>]]
    /\ UNCHANGED <<execVars, awVars, auxVars>>

NextOps == ExecuteOnce \/ ExecuteAgain \/ ExecuteBack

SpecOps == InitOps /\ [][NextOps]_vars

\* The path a Move or Rename produces.
DestOf(op) == IF op.kind = "Rename" THEN join(parent(op.a), op.n) ELSE op.b

\* C9: CreateFolder on an existing path, Move with the source missing and the
\* destination present, and DeleteFolder on a missing path succeed and leave
\* the filesystem as it was; executing a CreateFolder, Move or DeleteFolder a
\* second time leaves the filesystem of the first execution and gives the
\* same success result.
C9_IdempotentReplay ==
    /\ opt.pc \in {"once", "twice"} =>
          /\ (opt.op.kind = "CreateFolder" /\ exists(opt.fs0, opt.op.a))
                => (opt.r1.ok /\ opt.fs1 = opt.fs0)
          /\ (opt.op.kind = "Move" /\ ~exists(opt.fs0, opt.op.a) /\ exists(opt.fs0, opt.op.b))
                => (opt.r1.ok /\ opt.fs1 = opt.fs0)
          /\ (opt.op.kind = "DeleteFolder" /\ ~exists(opt.fs0, opt.op.a))
                => (opt.r1.ok /\ opt.fs1 = opt.fs0)
    /\ (opt.pc = "twice" /\ opt.op.kind \in {"CreateFolder", "Move", "DeleteFolder"})
          => (disk = opt.fs1 /\ opt.r2.ok = opt.r1.ok)

\* A Move that moved something has been executed again.
C9_Witness ==
    /\ opt.pc = "twice"
    /\ opt.op.kind = "Move"
    /\ opt.r1.ok /\ opt.fs1 # opt.fs0
    /\ opt.r2.ok /\ disk = opt.fs1

\* C10: a Rename or Move executed again with its destination present
\* succeeds exactly when its source is gone; with source and destination
\* both present it fails and changes nothing.
C10_ReplaySucceedsIffSourceGone ==
    (opt.pc = "twice" /\ opt.op.kind \in {"Rename", "Move"} /\ exists(opt.fs1, DestOf(opt.op)))
        => /\ opt.r2.ok <=> ~exists(opt.fs1, opt.op.a)
           /\ exists(opt.fs1, opt.op.a) => (~opt.r2.ok /\ disk = opt.fs1)

(***************************************************************************)
(* Specification SpecExec: one run of execute_journal, or one call of      *)
(* execute_entry, on a freshly built journal.                              *)
(***************************************************************************)
hA == <<"h", "A">>
hx == <<"h", "x">>
hy == <<"h", "y">>

\* The target folder at the start: the files x and y.
Disk0 == FsOf([n \in Names |-> IF n = "A" THEN "none" ELSE "file"], "none")

ExecOps == {CreateFolder(hA), Move(hx, <<"h", "A", "x">>), Move(hy, <<"h", "A", "y">>), Move(hx, hy)}

\* add_operation_with_deps: an entry depends on entries added before it.
DepShapes == {d \in [Entries -> SUBSET Entries] : \A e \in Entries : d[e] \subseteq 1..(e - 1)}

InitExec ==
    /\ \E ops \in [Entries -> ExecOps], deps \in DepShapes : plan = [ops |-> ops, deps |-> deps]
    /\ journal = [e \in Entries |-> Pending]
    /\ disk = Disk0
    /\ opt = OptOff
    /\ ExecIdle
    /\ AwIdle
    /\ AuxIdle

NextExec ==
    \/ execute_journal
    \/ spawn_level
    \/ join_level
    \/ \E e \in Entries : execute_entry(e)
    \/ \E e \in Entries : task_step(e)

SpecExec == InitExec /\ [][NextExec]_vars

\* The positions of an event in a task's history.
At(h, ev) == {i \in DOMAIN h : h[i] = ev}

Started(e) == task[e].pc # "idle"

Returned(e) == task[e].pc \in {"executed", "fin_loaded", "done"} /\ At(hist[e], "op") # {}

\* C1: execute_dag runs the levels in ascending order: a task of a level
\* exists (is spawned, marks its entry InProgress, runs its operation) only
\* when that level is the current one or an earlier one, and only after
\* every task of every lower level has finished.
C1_LevelsInOrder ==
    run.mode = "journal" =>
        \A e \in Entries : Started(e) =>
            /\ LevelOf(e) \in 1..run.lvl
            /\ \A e2 \in Entries :
                  (LevelOf(e2) # 0 /\ LevelOf(e2) < LevelOf(e)) => task[e2].pc = "done"

\* A level of two tasks has finished and a task of the next level is running
\* its operation.
C1_Witness ==
    /\ run.mode = "journal"
    /\ Len(run.levels) = 2
    /\ Cardinality(run.levels[1]) = 2
    /\ \E e \in run.levels[2] : task[e].pc = "executed"

\* C2: once an operation of a level has failed, no entry of a later level is
\* started in this run: it has no task, its persisted status is the one the
\* run loaded, and it has done nothing to the filesystem.
C2_StopAfterFailure ==
    run.mode = "journal" =>
        \A e \in Entries, e2 \in Entries :
            (Returned(e) /\ ~task[e].res.ok /\ LevelOf(e2) > LevelOf(e)) =>
                /\ ~Started(e2)
                /\ hist[e2] = <<>>
                /\ journal[e2] = run.loaded[e2]

\* The run has ended after a level in which one operation failed and one
\* succeeded; the entry of the next level is still Pending.
C2_Witness ==
    /\ run.mode = "journal" /\ run.pc = "done"
    /\ Len(run.levels) = 2
    /\ \E e \in run.levels[1] : Returned(e) /\ ~task[e].res.ok
    /\ \E e \in run.levels[1] : Returned(e) /\ task[e].res.ok
    /\ \E e \in run.levels[2] : ~Started(e) /\ journal[e].status = "Pending"

\* C3: in every task of execute_level and in execute_entry, a journal write
\* that marks the entry InProgress comes before the entry's operation, which
\* runs only after that mark was attempted; a write that marks the entry
\* Completed or Failed comes after the operation has returned; Completed is
\* written only for an operation that returned Ok, Failed (with the
\* operation's error) only for one that returned Err.
C3_WriteAheadOrder ==
    \A e \in Entries :
        LET h == hist[e] IN
        /\ \A i \in At(h, "ip"), j \in At(h, "op") : i < j
        /\ \A j \in At(h, "op") : \E i \in At(h, "ip") \cup At(h, "ip_fail") : i < j
        /\ (run.mode = "entry" /\ At(h, "op") # {}) => At(h, "ip") # {}
        /\ \A i \in At(h, "fin_C") \cup At(h, "fin_F") : \E j \in At(h, "op") : j < i
        /\ At(h, "fin_C") # {} => task[e].res.ok
        /\ At(h, "fin_F") # {} => ~task[e].res.ok
        /\ journal[e].status = "Completed" => (At(h, "fin_C") # {} /\ task[e].res.ok)
        /\ journal[e].status = "Failed" =>
              (At(h, "fin_F") # {} /\ ~task[e].res.ok /\ journal[e].error = task[e].res.err)

\* One entry has been marked, run and marked Failed, another marked, run and
\* marked Completed.
C3_Witness ==
    /\ \E e \in Entries : hist[e] = <<"ip", "op", "fin_F">> /\ journal[e].status = "Failed"
    /\ \E e \in Entries : hist[e] = <<"ip", "op", "fin_C">> /\ journal[e].status = "Completed"

\* The status a task wrote last.
LastWrite(h) ==
    IF At(h, "fin_C") # {} THEN "Completed"
    ELSE IF At(h, "fin_F") # {} THEN "Failed"
    ELSE IF At(h, "ip") # {} THEN "InProgress"
    ELSE ""

\* C5: no status update of a level's parallel tasks is lost: the persisted
\* journal shows for every entry the status its task wrote last, and when
\* the run has ended without a persistence failure every entry that was run
\* is Completed or Failed according to its operation's result.
C5_NoLostUpdate ==
    run.mode = "journal" =>
        /\ \A e \in Entries : LastWrite(hist[e]) # "" => journal[e].status = LastWrite(hist[e])
        /\ (run.pc = "done" /\ iofail = 0) =>
              \A e \in Entries : Started(e) => journal[e].status = final_status(task[e].res)

\* C6: an operation whose InProgress mark could not be persisted is not
\* executed, and after a failed mark_entry_* call the run issues no further
\* filesystem operation for that entry.
C6_AbortOnPersistFailure ==
    \A e \in Entries : \A i \in At(hist[e], "ip_fail"), j \in At(hist[e], "op") : j < i

\* C14: in every journal state the executor reaches, through execute_journal
\* or execute_entry, an entry that is Completed has all the entries of its
\* depends_on Completed.
C14_CompletedDepsCompleted ==
    \A e \in Entries :
        journal[e].status = "Completed" =>
            \A d \in plan.deps[e] : journal[d].status = "Completed"

(***************************************************************************)
(* Safe I/O: atomic_write on the journal file.  The WAL directory holds    *)
(* names that point to inodes; each has a view in memory and a durable     *)
(* one, which is what a power loss leaves.                                 *)
(***************************************************************************)
PayloadLen == 2

MaxWrites == 2

\* The process ids a process may get; the temp file's name embeds the pid.
Pids == {1, 2}

\* The callers of atomic_write inside the process.
Threads == {1, 2}

Target == <<"journal">>

temp_name(pid) == <<"tmp", pid>>

FileNames == {Target} \cup {temp_name(p) : p \in Pids}

Inodes == 1..(MaxWrites + 1)

\* No file under the name; told apart from every content.
Absent == <<-2>>

\* Blocks that are neither the old nor the new bytes.
Torn == <<-1>>

\* The bytes of the k-th journal state, PayloadLen blocks long.
Payload(k) == [i \in 1..PayloadLen |-> k]

Prefixes(c) == {SubSeq(c, 1, i) : i \in 0..Len(c)}

NoInode == [mem |-> <<>>, dur |-> <<>>, dirty |-> FALSE]

\* write at block position pos of a file.
write_at(mem, pos, v) ==
    [i \in 1..(IF pos > Len(mem) THEN pos ELSE Len(mem)) |->
        IF i = pos THEN v ELSE IF i <= Len(mem) THEN mem[i] ELSE 0]

\* File::sync_all left out.
sync_all_skipped(n) == n

\* File::sync_all: the file's data is on disk.
sync_all(n) == [n EXCEPT !.dur = n.mem, !.dirty = FALSE]

\* fs::remove_file(temp_path), its error ignored.
remove_file(st, name) == [st EXCEPT !.dir[name] = 0]

\* What a power loss may leave of a file.
Images(n) == IF n.dirty THEN Prefixes(n.mem) \cup {n.dur, Torn} ELSE {n.mem}

\* The target as the process reads it.
TargetView == IF store.dir[Target] = 0 THEN Absent ELSE store.ino[store.dir[Target]].mem

\* The target as a power loss in this state may leave it.
TargetImages == IF store.dur[Target] = 0 THEN {Absent} ELSE Images(store.ino[store.dur[Target]])

Busy == \E t \in Threads : aw.th[t].pc # "idle"

\* The steps the calls in progress are at.
BusyAt == {aw.th[t].pc : t \in {u \in Threads : aw.th[u].pc # "idle"}}

NoCrash == [kind |-> "none", at |-> {}]

ThreadIdle == [pc |-> "idle", data |-> <<>>, fd |-> 0, off |-> 0, ret |-> ""]

aw_return(t, ret) == [aw EXCEPT !.th[t] = [ThreadIdle EXCEPT !.ret = ret]]

\* atomic_write(path, data) is entered by a thread; the parent directory
\* exists.
aw_enter(t) ==
    /\ aw.th[t].pc = "idle"
    /\ aw.calls < MaxWrites
    /\ aw' = [aw EXCEPT !.calls = @ + 1,
                        !.th[t] = [ThreadIdle EXCEPT !.pc = "open", !.data = Payload(aw.calls + 1)],
                        !.old = TargetView,
                        !.data = Payload(aw.calls + 1),
                        !.complete = @ \cup {Payload(aw.calls + 1)},
                        !.base_durable = TargetImages = {TargetView},
                        !.crash = NoCrash]
    /\ UNCHANGED <<store, disk, opt, execVars, auxVars>>

\* atomic_write(path, data) is called while no other call is in progress.
aw_call(t) ==
    /\ \A u \in Threads : aw.th[u].pc = "idle"
    /\ aw_enter(t)

\* OpenOptions write, create, truncate on the temp path.
aw_open(t) ==
    /\ aw.th[t].pc = "open"
    /\ LET temp == temp_name(aw.pid)
           i == IF store.dir[temp] # 0 THEN store.dir[temp] ELSE store.next
       IN
       /\ store' = [store EXCEPT !.dir[temp] = i,
                                 !.ino[i] = [@ EXCEPT !.mem = <<>>, !.dirty = TRUE],
                                 !.next = IF store.dir[temp] # 0 THEN @ ELSE @ + 1]
       /\ aw' = [aw EXCEPT !.th[t].pc = "write", !.th[t].fd = i]
    /\ UNCHANGED <<disk, opt, execVars, auxVars>>

\* write_all: one block after the other.
aw_write(t) ==
    /\ aw.th[t].pc = "write"
    /\ LET th == aw.th[t] IN
       /\ store' = [store EXCEPT !.ino[th.fd] =
                        [@ EXCEPT !.mem = write_at(@, th.off + 1, th.data[th.off + 1]),
                                  !.dirty = TRUE]]
       /\ aw' = [aw EXCEPT !.th[t].off = @ + 1,
                           !.th[t].pc = IF th.off + 1 = Len(th.data) THEN "sync" ELSE "write"]
    /\ UNCHANGED <<disk, opt, execVars, auxVars>>

aw_sync(t) ==
    /\ aw.th[t].pc = "sync"
    /\ store' = [store EXCEPT !.ino[aw.th[t].fd] = sync_all(@)]
    /\ aw' = [aw EXCEPT !.th[t].pc = "rename"]
    /\ UNCHANGED <<disk, opt, execVars, auxVars>>

\* Opening, writing or syncing the temp file fails: the temp file is removed
\* and the error returned.
aw_write_fails(t) ==
    /\ aw.th[t].pc \in {"open", "write", "sync"}
    /\ aw.fails < MaxIoFailures
    /\ store' = remove_file(store, temp_name(aw.pid))
    /\ aw' = [aw_return(t, IF aw.th[t].pc = "sync" THEN "SyncError" ELSE "WriteError")
                EXCEPT !.fails = @ + 1]
    /\ UNCHANGED <<disk, opt, execVars, auxVars>>

\* fs::rename(temp_path, path).
aw_rename(t) ==
    /\ aw.th[t].pc = "rename"
    /\ LET temp == temp_name(aw.pid) IN
       IF store.dir[temp] = 0
       THEN /\ aw' = aw_return(t, "RenameError")
            /\ UNCHANGED store
       ELSE /\ store' = [store EXCEPT !.dir[Target] = store.dir[temp], !.dir[temp] = 0,
                                      !.ino = IF store.dir[Target] \in Inodes \ {store.dur[n] : n \in FileNames}
                                              THEN [@ EXCEPT ![store.dir[Target]] = NoInode]
                                              ELSE @]
            /\ aw' = [aw EXCEPT !.th[t].pc = "dirsync"]
    /\ UNCHANGED <<disk, opt, execVars, auxVars>>

\* The rename fails: the temp file is removed and the error returned.
aw_rename_fails(t) ==
    /\ aw.th[t].pc = "rename"
    /\ aw.fails < MaxIoFailures
    /\ store' = remove_file(store, temp_name(aw.pid))
    /\ aw' = [aw_return(t, "RenameError") EXCEPT !.fails = @ + 1]
    /\ UNCHANGED <<disk, opt, execVars, auxVars>>

\* sync_directory(parent): the directory's entries are on disk.
sync_directory(t) ==
    /\ aw.th[t].pc = "dirsync"
    /\ store' = [store EXCEPT !.dur = store.dir]
    /\ aw' = aw_return(t, "Ok")
    /\ UNCHANGED <<disk, opt, execVars, auxVars>>

\* sync_directory fails: `?` returns the error.
sync_directory_fails(t) ==
    /\ aw.th[t].pc = "dirsync"
    /\ aw.fails < MaxIoFailures
    /\ aw' = [aw_return(t, "SyncError") EXCEPT !.fails = @ + 1]
    /\ UNCHANGED <<store, disk, opt, execVars, auxVars>>

\* The operating system writes the directory back on its own.
writeback_dir ==
    /\ store.dur # store.dir
    /\ store' = [store EXCEPT !.dur = store.dir]
    /\ UNCHANGED <<aw, disk, opt, execVars, auxVars>>


\* The process is killed inside atomic_write; a new process starts.
kill ==
    /\ Busy
    /\ \E p \in Pids :
        aw' = [aw EXCEPT !.pid = p, !.th = [t \in Threads |-> ThreadIdle],
                        !.crash = [kind |-> "kill", at |-> BusyAt]]
    /\ UNCHANGED <<store, disk, opt, execVars, auxVars>>

\* Power is lost inside atomic_write: what is not durable is gone, and of a
\* file with unsynced data any part may be left.
power_loss ==
    /\ Busy
    /\ LET named == {store.dur[n] : n \in FileNames} \ {0}
           dirty == {i \in named : store.ino[i].dirty}
       IN
       \E p \in Pids, img \in [dirty -> UNION {Images(store.ino[i]) : i \in dirty}] :
        /\ \A i \in dirty : img[i] \in Images(store.ino[i])
        /\ store' = [store EXCEPT
                !.dir = store.dur,
                !.ino = [i \in Inodes |->
                            IF i \in dirty THEN [mem |-> img[i], dur |-> img[i], dirty |-> FALSE]
                            ELSE IF i \in named THEN store.ino[i]
                            ELSE NoInode]]
        /\ aw' = [aw EXCEPT !.pid = p, !.th = [t \in Threads |-> ThreadIdle],
                            !.crash = [kind |-> "power", at |-> BusyAt]]
    /\ UNCHANGED <<disk, opt, execVars, auxVars>>

(***************************************************************************)
(* Specification SpecAW: calls of atomic_write on the journal file, one at *)
(* a time, with process kills, power losses and I/O errors.                *)
(***************************************************************************)
InitAW ==
    /\ \E had \in BOOLEAN, p \in Pids :
        /\ store = [dir |-> [n \in FileNames |-> IF n = Target /\ had THEN 1 ELSE 0],
                    dur |-> [n \in FileNames |-> IF n = Target /\ had THEN 1 ELSE 0],
                    ino |-> [i \in Inodes |-> IF i = 1 /\ had
                                              THEN [mem |-> Payload(0), dur |-> Payload(0), dirty |-> FALSE]
                                              ELSE NoInode],
                    next |-> IF had THEN 2 ELSE 1]
        /\ aw = [pid |-> p, calls |-> 0, fails |-> 0,
                 th |-> [t \in Threads |-> ThreadIdle],
                 old |-> IF had THEN Payload(0) ELSE Absent,
                 data |-> IF had THEN Payload(0) ELSE Absent,
                 complete |-> {IF had THEN Payload(0) ELSE Absent},
                 base_durable |-> TRUE,
                 crash |-> NoCrash]
    /\ disk = <<>>
    /\ opt = OptOff
    /\ plan = <<>>
    /\ journal = <<>>
    /\ ExecIdle
    /\ AuxIdle

NextAW ==
    \/ \E t \in Threads :
        \/ aw_call(t)
        \/ aw_open(t)
        \/ aw_write(t)
        \/ aw_sync(t)
        \/ aw_write_fails(t)
        \/ aw_rename(t)
        \/ aw_rename_fails(t)
        \/ sync_directory(t)
        \/ sync_directory_fails(t)
    \/ writeback_dir
    \/ kill
    \/ power_loss

SpecAW == InitAW /\ [][NextAW]_vars

\* C4: whatever step of atomic_write a crash interrupts (a kill of the
\* process or a power loss), the target holds complete contents, never part of
\* a payload and never an empty file: as the process sees it, the contents
\* before the call or the call's data; after a power loss the same, provided
\* the contents before the call were durable when the call began.
C4_CrashAtomic ==
    /\ TargetView \in aw.complete
    /\ TargetImages \subseteq aw.complete
    /\ aw.base_durable => (TargetView \in {aw.old, aw.data} /\ TargetImages \subseteq {aw.old, aw.data})

\* Power was lost between the rename and sync_directory of the second call,
\* the directory already written back: the target holds the call's data.
C4_Witness ==
    /\ aw.crash = [kind |-> "power", at |-> {"dirsync"}]
    /\ aw.calls = MaxWrites
    /\ aw.base_durable
    /\ aw.old # aw.data
    /\ TargetView = aw.data

(***************************************************************************)
(* Recovery: the process dies during a run; the journal is then resumed    *)
(* (execute_journal again) or rolled back.                                 *)
(***************************************************************************)
\* The process dies while a run is in progress: its tasks are gone, the
\* journal file and the disk stay as they are.
crash ==
    /\ run.mode = "journal"
    /\ run.pc \in {"level", "join"}
    /\ ~run.restarted
    /\ run' = [RunIdle EXCEPT !.restarted = TRUE]
    /\ task' = [e \in Entries |-> TaskIdle]
    /\ hist' = [e \in Entries |-> <<>>]
    /\ UNCHANGED <<disk, opt, plan, journal, iofail, awVars, auxVars>>

basename(p) == p[Len(p)]

has_inverse(op) == op.kind # "DeleteFolder"

\* The inverse operation of an entry.
inverse(op) ==
    CASE op.kind = "CreateFolder" -> DeleteFolder(op.a)
      [] op.kind = "Move" -> Move(op.b, op.a)
      [] op.kind = "Rename" -> Rename(join(parent(op.a), op.n), basename(op.a))
      [] op.kind = "Copy" -> DeleteFolder(op.b)
      [] op.kind = "Quarantine" -> Move(op.b, op.a)
      [] OTHER -> op

is_empty_dir(fs, p) == is_dir(fs, p) /\ ~\E q \in Paths : q # p /\ exists(fs, q) /\ starts_with(q, p)

\* Every entry is undone, whatever its status.
undo_any_status(st) == TRUE

\* Only Completed entries are undone.
undo_wanted(st) == st = "Completed"

\* rollback_journal: load the journal.
rollback_journal ==
    /\ run.mode # "rollback"
    /\ run.pc = "done" \/ (run.pc = "idle" /\ run.restarted)
    /\ run' = [RunIdle EXCEPT !.pc = "undo", !.mode = "rollback", !.loaded = journal,
                              !.lvl = Cardinality(Entries), !.restarted = run.restarted]
    /\ task' = [e \in Entries |-> TaskIdle]
    /\ hist' = [e \in Entries |-> <<>>]
    /\ UNCHANGED <<disk, opt, plan, journal, iofail, awVars, auxVars>>

\* rollback_journal, one entry of the loop over the entries in reverse order.
rollback_entry ==
    /\ run.pc = "undo"
    /\ LET e == run.lvl
           op == plan.ops[e]
           inv == inverse(op)
           skip == ~undo_wanted(run.loaded[e].status) \/ ~has_inverse(op)
           kept == op.kind = "CreateFolder" /\ exists(disk, op.a) /\ ~is_empty_dir(disk, op.a)
           res == IF kept THEN Err("Folder not empty", disk)
                  ELSE execute_operation_sync(inv, disk, FALSE)
           r1 == [run EXCEPT !.lvl = @ - 1,
                             !.pc = IF run.lvl = 1 THEN "done" ELSE "undo",
                             !.ret = IF run.lvl = 1 THEN "RolledBack" ELSE @]
       IN
       IF skip
       THEN /\ run' = r1
            /\ UNCHANGED disk
       ELSE /\ run' = [r1 EXCEPT !.undone = Append(@, [e |-> e, op |-> inv, ok |-> res.ok,
                                                      before |-> disk, after |-> res.fs])]
            /\ disk' = res.fs
    /\ UNCHANGED <<opt, plan, journal, task, hist, iofail, awVars, auxVars>>

(***************************************************************************)
(* Specification SpecRecover: a run of execute_journal that the process    *)
(* may not survive, then a resume or a rollback.  The journal file is      *)
(* writable throughout.                                                    *)
(***************************************************************************)
RecoverOps == {CreateFolder(hA), Move(hx, <<"h", "A", "x">>), Copy(hy, <<"h", "A", "y">>), DeleteFolder(hy)}

\* Each entry depends on the entry before it or on none, and one does.
RecoverDeps ==
    {d \in DepShapes : /\ \A e \in Entries : d[e] \subseteq {e - 1}
                       /\ \E e \in Entries : d[e] # {}}

InitRecover ==
    /\ \E ops \in [Entries -> RecoverOps], deps \in RecoverDeps : plan = [ops |-> ops, deps |-> deps]
    /\ journal = [e \in Entries |-> Pending]
    /\ disk = Disk0
    /\ opt = OptOff
    /\ run = RunIdle
    /\ task = [e \in Entries |-> TaskIdle]
    /\ hist = [e \in Entries |-> <<>>]
    /\ iofail = MaxIoFailures
    /\ AwIdle
    /\ AuxIdle

NextRecover ==
    \/ execute_journal
    \/ spawn_level
    \/ join_level
    \/ \E e \in Entries : task_run(e)
    \/ crash
    \/ rollback_journal
    \/ rollback_entry

SpecRecover == InitRecover /\ [][NextRecover]_vars

\* C7: when execute_journal is run again on a partially executed journal and
\* every operation succeeds, every entry that was InProgress or Pending is
\* processed again, also one that depends on a Completed entry, and all
\* entries end Completed.
C7_ResumeCompletesAll ==
    (/\ run.restarted
     /\ run.mode = "journal"
     /\ run.pc = "done"
     /\ \E e \in Entries : run.loaded[e].status = "Completed"
     /\ \A e \in Entries : journal[e].status # "Failed" /\ (task[e].pc = "done" => task[e].res.ok))
    => /\ \A e \in pending_entries(run.loaded) : At(hist[e], "op") # {}
       /\ \A e \in Entries : journal[e].status = "Completed"

DagIds == {1, 2, 3, 4}

DagIdle == [pc |-> "input", nodes |-> {}, deps |-> <<>>, sorted |-> <<>>, i |-> 0,
            node_levels |-> <<>>, err |-> "", levels |-> <<>>]

InitDag ==
    /\ \E nodes \in SUBSET DagIds, deps \in [DagIds -> SUBSET DagIds] :
        /\ \A n \in DagIds \ nodes : deps[n] = {}
        /\ dg = [DagIdle EXCEPT !.nodes = nodes, !.deps = deps]
    /\ bld = <<>>
    /\ vfs = <<>>
    /\ MoreIdle
    /\ disk = <<>>
    /\ opt = OptOff
    /\ plan = <<>>
    /\ journal = <<>>
    /\ ExecIdle
    /\ AwIdle

\* from_entries up to the cycle check: an error, or the order toposort gives
\* compute_levels.
dag_from_entries ==
    /\ dg.pc = "input"
    /\ LET r == from_entries(dg.nodes, dg.deps) IN
       IF r.err # ""
       THEN dg' = [dg EXCEPT !.pc = "done", !.err = r.err]
       ELSE \E sorted \in toposort(dg.nodes, dg.deps) :
                dg' = [dg EXCEPT !.pc = "levels", !.sorted = sorted, !.i = 1]
    /\ UNCHANGED <<disk, opt, execVars, awVars, bld, vfs, moreVars>>

\* compute_levels: one turn of the loop over the sorted nodes.
dag_assign_level ==
    /\ dg.pc = "levels"
    /\ dg.i <= Len(dg.sorted)
    /\ dg' = [dg EXCEPT !.i = @ + 1,
                        !.node_levels = (dg.sorted[dg.i] :>
                            assign_level(dg.node_levels, dg.sorted[dg.i], dg.nodes, dg.deps)) @@ @]
    /\ UNCHANGED <<disk, opt, execVars, awVars, bld, vfs, moreVars>>

\* compute_levels: the nodes grouped by level; from_entries returns Ok(dag).
dag_group_levels ==
    /\ dg.pc = "levels"
    /\ dg.i > Len(dg.sorted)
    /\ dg' = [dg EXCEPT !.pc = "done", !.levels = group_levels(dg.node_levels)]
    /\ UNCHANGED <<disk, opt, execVars, awVars, bld, vfs, moreVars>>

NextDag == dag_from_entries \/ dag_assign_level \/ dag_group_levels

SpecDag == InitDag /\ [][NextDag]_vars

DagBuilt == dg.pc = "done" /\ dg.err = ""

LevelsWith(n) == {i \in DOMAIN dg.levels : n \in dg.levels[i]}

\* C11: in a DAG built by from_entries every entry is in exactly one level,
\* the levels hold nothing but the entries, and every depends_on entry of an
\* entry of level L is in a level strictly lower than L.
C11_LevelsRespectDeps ==
    DagBuilt =>
        /\ \A n \in dg.nodes : Cardinality(LevelsWith(n)) = 1
        /\ \A i \in DOMAIN dg.levels : dg.levels[i] \subseteq dg.nodes
        /\ \A n \in dg.nodes : \A m \in dg.deps[n] :
            \A i \in LevelsWith(n) : \E j \in LevelsWith(m) : j < i

\* The diamond: 2 and 3 depend on 1, 4 on 2 and 3; three levels.
C11_Witness ==
    /\ DagBuilt
    /\ dg.nodes = DagIds
    /\ dg.deps = (1 :> {} @@ 2 :> {1} @@ 3 :> {1} @@ 4 :> {2, 3})
    /\ dg.levels = <<{1}, {2, 3}, {4}>>

\* C12: compute_levels puts an entry without dependencies in level 0 and every
\* other entry one level above its highest dependency, and no level up to the
\* highest is empty.
C12_EarliestLevel ==
    DagBuilt =>
        /\ \A n \in dg.nodes : LevelsWith(n) = {node_level(n, dg.deps) + 1}
        /\ \A i \in DOMAIN dg.levels : dg.levels[i] # {}
        /\ Len(dg.levels) >= 1

\* A chain next to an entry that depends on both ends of it.
C12_Witness ==
    /\ DagBuilt
    /\ dg.nodes = DagIds
    /\ dg.deps = (1 :> {} @@ 2 :> {1} @@ 3 :> {2} @@ 4 :> {1, 3})
    /\ dg.levels = <<{1}, {2}, {3}, {4}>>

MissingDep == \E n \in dg.nodes : dg.deps[n] \ dg.nodes # {}

OnCycle(n) == n \in reach(n, dg.deps, dg.nodes, Cardinality(dg.nodes))

\* C13: from_entries returns EmptyGraph for no entries, DependencyNotFound
\* when a depends_on id is not among the entries, CycleDetected when the
\* dependencies form a cycle, a self-dependency included, and otherwise
\* succeeds with each entry as one node.
C13_FromEntriesErrors ==
    dg.pc = "done" =>
        /\ dg.err = "EmptyGraph" <=> dg.nodes = {}
        /\ dg.err = "DependencyNotFound" <=> (dg.nodes # {} /\ MissingDep)
        /\ dg.err = "CycleDetected" <=>
                (dg.nodes # {} /\ ~MissingDep /\ \E n \in dg.nodes : OnCycle(n))
        /\ dg.err \in {"", "EmptyGraph", "DependencyNotFound", "CycleDetected"}
        /\ dg.err = "" => (/\ UNION {dg.levels[i] : i \in DOMAIN dg.levels} = dg.nodes
                           /\ DOMAIN dg.node_levels = dg.nodes
                           /\ Len(dg.sorted) = Cardinality(dg.nodes))

\* An entry that depends on itself, all ids listed: CycleDetected.
C13_Witness ==
    /\ dg.pc = "done"
    /\ dg.err = "CycleDetected"
    /\ \E n \in dg.nodes : n \in dg.deps[n]
    /\ \A n \in dg.nodes : \A m \in dg.deps[n] : m = n

(***************************************************************************)
(* Building a journal: wal_add_operation and ExecutionBuilder.             *)
(***************************************************************************)
MaxEntries == 2

\* The UUIDs there are: those of this journal's entries and any other.
Uuids == {1, 2, 3}

NoUuid == 0

\* The strings a caller passes in depends_on.
UuidStrings == {"uuid-1", "uuid-2", "uuid-3", "not-a-uuid"}

\* Uuid::to_string
to_string(id) ==
    CASE id = 1 -> "uuid-1" [] id = 2 -> "uuid-2" [] id = 3 -> "uuid-3"

\* Uuid::parse_str(s).ok()
parse_str(s) == IF \E id \in Uuids : to_string(id) = s
                THEN CHOOSE id \in Uuids : to_string(id) = s
                ELSE NoUuid

\* Lists of at most two elements of S.
ShortLists(S) == {<<>>} \cup {<<a>> : a \in S} \cup {<<a, b>> : a \in S, b \in S}

RECURSIVE filter_map_parse(_)
filter_map_parse(strs) ==
    IF strs = <<>> THEN <<>>
    ELSE LET rest == filter_map_parse(Tail(strs)) IN
         IF parse_str(Head(strs)) = NoUuid THEN rest ELSE <<parse_str(Head(strs))>> \o rest

EntryIds(j) == {j[i].id : i \in DOMAIN j}

\* WALJournal::add_operation_with_deps: a new entry with the list recorded.
journal_add_operation_with_deps(j, id, op, deps) ==
    Append(j, [id |-> id, op |-> op, depends_on |-> deps])

\* WALJournal::add_operation: a new entry without dependencies.
journal_add_operation(j, id, op) == journal_add_operation_with_deps(j, id, op, <<>>)

\* wal_add_operation(job_id, operation_type, path, .., depends_on).
wal_add_operation ==
    /\ bld.pc = "open"
    /\ \E operation_type \in {"create_folder", "delete_folder", "bogus"},
          path \in {NoPath, hA},
          depends_on \in {<<"None">>} \cup ShortLists(UuidStrings),
          id \in Uuids \ EntryIds(bld.entries) :
        IF operation_type = "bogus" \/ path = NoPath
        THEN bld' = [bld EXCEPT !.ret = "Err", !.via = "wal_add_operation"]
        ELSE LET operation == IF operation_type = "create_folder"
                              THEN CreateFolder(path) ELSE DeleteFolder(path)
                 deps == IF depends_on = <<"None">> THEN <<>> ELSE filter_map_parse(depends_on)
             IN
             /\ Len(bld.entries) < MaxEntries
             /\ bld' = [bld EXCEPT
                    !.entries = IF deps = <<>>
                                THEN journal_add_operation(@, id, operation)
                                ELSE journal_add_operation_with_deps(@, id, operation, deps),
                    !.ret = to_string(id),
                    !.via = "wal_add_operation"]
    /\ UNCHANGED <<disk, opt, execVars, awVars, dg, vfs, moreVars>>

\* ExecutionBuilder::add_operation.
builder_add_operation ==
    /\ bld.pc = "open"
    /\ Len(bld.entries) < MaxEntries
    /\ \E op \in {CreateFolder(hA), DeleteFolder(hA)}, id \in Uuids \ EntryIds(bld.entries) :
        bld' = [bld EXCEPT !.entries = journal_add_operation(@, id, op), !.ret = to_string(id),
                           !.via = "add_operation"]
    /\ UNCHANGED <<disk, opt, execVars, awVars, dg, vfs, moreVars>>

\* ExecutionBuilder::add_operation_with_deps.
builder_add_operation_with_deps ==
    /\ bld.pc = "open"
    /\ Len(bld.entries) < MaxEntries
    /\ \E op \in {CreateFolder(hA), DeleteFolder(hA)}, id \in Uuids \ EntryIds(bld.entries),
          depends_on \in ShortLists(Uuids) :
        bld' = [bld EXCEPT !.entries = journal_add_operation_with_deps(@, id, op, depends_on),
                           !.ret = to_string(id), !.via = "add_operation_with_deps"]
    /\ UNCHANGED <<disk, opt, execVars, awVars, dg, vfs, moreVars>>

(***************************************************************************)
(* Specification SpecBuild: a new journal and calls that add entries.      *)
(***************************************************************************)
InitBuild ==
    /\ bld = [pc |-> "open", entries |-> <<>>, ret |-> "", via |-> ""]
    /\ dg = <<>>
    /\ vfs = <<>>
    /\ MoreIdle
    /\ disk = <<>>
    /\ opt = OptOff
    /\ plan = <<>>
    /\ journal = <<>>
    /\ ExecIdle
    /\ AwIdle

NextBuild == wal_add_operation \/ builder_add_operation \/ builder_add_operation_with_deps

SpecBuild == InitBuild /\ [][NextBuild]_vars

\* C15: after any calls of wal_add_operation and add_operation_with_deps,
\* every id in an entry's depends_on is the id of an entry of the journal.
C15_DepsWithinJournal ==
    \A i \in DOMAIN bld.entries :
        \A k \in DOMAIN bld.entries[i].depends_on :
            bld.entries[i].depends_on[k] \in EntryIds(bld.entries)

(***************************************************************************)
(* Path guards of the operations, under SpecOps.                           *)
(***************************************************************************)
\* The journal's target_folder.
target_folder == <<"h", "A">>

Executed == opt.pc \in {"once", "twice"}

\* The paths that hold something they did not hold before the operation.
Produced == {q \in Paths : opt.fs1[q] # "none" /\ opt.fs1[q] # opt.fs0[q]}

\* C16: an operation the executor reports as successful creates or moves
\* nothing to a path outside the journal's target_folder, a Quarantine to its
\* quarantine path excepted.
C16_StaysInTargetFolder ==
    (Executed /\ opt.r1.ok /\ opt.op.kind # "Quarantine")
        => \A q \in Produced : starts_with(q, target_folder)

\* C17: a Rename, Move, Copy or DeleteFolder whose source is a symbolic link
\* fails and leaves the filesystem unchanged.
C17_NoSymlinkSource ==
    (Executed /\ opt.op.kind \in {"Rename", "Move", "Copy", "DeleteFolder"}
        /\ is_symlink(opt.fs0, opt.op.a))
        => (~opt.r1.ok /\ opt.fs1 = opt.fs0)

\* C18: a Move of a file to a protected destination is rejected and nothing
\* on the filesystem is created, moved or changed.
C18_ProtectedDestinationRejected ==
    (Executed /\ opt.op.kind = "Move" /\ opt.fs0[opt.op.a] \in FileIds
        /\ is_protected_path(opt.op.b))
        => (~opt.r1.ok /\ opt.fs1 = opt.fs0)

(***************************************************************************)
(* Shadow VFS (vfs/graph.rs): the node map and the three staging sets.     *)
(***************************************************************************)

MaxStaged == 2

root == <<"root">>

VfsPaths ==
    {root, <<"root", "a">>, <<"root", "b">>,
     <<"root", "a", "a">>, <<"root", "a", "b">>}

NodeKinds == {"file", "directory"}

\* ShadowVFS::new: the node map holds the root directory, nothing is staged.
\* calls counts the staging calls made, last is the call that returned last
\* with the staged moves it found.
NoCall == [op |-> "", src |-> NoPath, dest |-> NoPath, ret |-> "", before |-> {}]

new(r) ==
    [nodes |-> [p \in VfsPaths |-> IF p = r THEN "directory" ELSE "none"],
     staged_creates |-> {}, staged_deletes |-> {}, staged_moves |-> {},
     calls |-> 0, last |-> NoCall]

contains_key(v, p) == p \in VfsPaths /\ v.nodes[p] # "none"

\* HashMap::insert on staged_moves: one destination per source.
moves_insert(moves, src, dest) ==
    {m \in moves : m[1] # src} \cup {<<src, dest>>}

\* The parent test of stage_move, which lets the root through unlooked-at.
move_parent_missing(v, dest) ==
    LET parent_path == parent(dest)
    IN  /\ parent_path # root
        /\ (~contains_key(v, parent_path) \/ parent_path \in v.staged_deletes)
        /\ parent_path \notin v.staged_creates

\* ShadowVFS::exists: in the node map and not staged for deletion.
vfs_exists(v, p) == contains_key(v, p) /\ p \notin v.staged_deletes

\* stage_move with the cycle test made before the collision test.
stage_move_cycle_first(v, src, dest) ==
    IF ~contains_key(v, src) \/ src \in v.staged_deletes THEN "PathNotFound"
    ELSE IF starts_with(dest, src) /\ dest # src THEN "CycleDetected"
    ELSE IF contains_key(v, dest) /\ dest \notin v.staged_deletes THEN "PathCollision"
    ELSE IF move_parent_missing(v, dest) THEN "ParentNotFound"
    ELSE IF src = root THEN "CannotModifyRoot"
    ELSE "Ok"

\* The result of stage_move, its tests in the order of the code.
stage_move_result(v, src, dest) ==
    IF ~contains_key(v, src) \/ src \in v.staged_deletes THEN "PathNotFound"
    ELSE IF contains_key(v, dest) /\ dest \notin v.staged_deletes THEN "PathCollision"
    ELSE IF starts_with(dest, src) /\ dest # src THEN "CycleDetected"
    ELSE IF move_parent_missing(v, dest) THEN "ParentNotFound"
    ELSE IF src = root THEN "CannotModifyRoot"
    ELSE "Ok"

stage_create_folder_result(v, path) ==
    IF contains_key(v, path) /\ path \notin v.staged_deletes THEN "PathCollision"
    ELSE IF /\ (~contains_key(v, parent(path)) \/ parent(path) \in v.staged_deletes)
            /\ parent(path) \notin v.staged_creates
         THEN "ParentNotFound"
    ELSE "Ok"

stage_delete_result(v, path) ==
    IF ~contains_key(v, path) THEN "PathNotFound"
    ELSE IF path = root THEN "CannotModifyRoot"
    ELSE "Ok"

VfsQuiet == UNCHANGED <<disk, opt, execVars, awVars, dg, bld, moreVars>>

Called(v, op, src, dest, ret) ==
    [v EXCEPT !.calls = v.calls + 1,
              !.last = [op |-> op, src |-> src, dest |-> dest, ret |-> ret,
                        before |-> vfs.staged_moves]]

\* ShadowVFS::insert, as the scan calls it before anything is staged.
insert ==
    /\ vfs.calls = 0
    /\ \E p \in VfsPaths \ {root}, k \in NodeKinds :
        vfs' = [vfs EXCEPT !.nodes[p] = k]
    /\ VfsQuiet

stage_move ==
    /\ vfs.calls < MaxStaged
    /\ \E src \in VfsPaths, dest \in VfsPaths :
        LET ret == stage_move_result(vfs, src, dest)
            v   == IF ret = "Ok"
                   THEN [vfs EXCEPT !.staged_moves = moves_insert(@, src, dest)]
                   ELSE vfs
        IN  vfs' = Called(v, "stage_move", src, dest, ret)
    /\ VfsQuiet

stage_create_folder ==
    /\ vfs.calls < MaxStaged
    /\ \E path \in VfsPaths :
        LET ret == stage_create_folder_result(vfs, path)
            v   == IF ret = "Ok"
                   THEN [vfs EXCEPT !.staged_creates = @ \cup {path}]
                   ELSE vfs
        IN  vfs' = Called(v, "stage_create_folder", path, NoPath, ret)
    /\ VfsQuiet

stage_delete ==
    /\ vfs.calls < MaxStaged
    /\ \E path \in VfsPaths :
        LET ret == stage_delete_result(vfs, path)
            v   == IF ret = "Ok"
                   THEN [vfs EXCEPT !.staged_deletes = @ \cup {path}]
                   ELSE vfs
        IN  vfs' = Called(v, "stage_delete", path, NoPath, ret)
    /\ VfsQuiet

clear_staged ==
    /\ vfs.calls > 0
    /\ vfs.calls < MaxStaged
    /\ vfs' = Called([vfs EXCEPT !.staged_creates = {}, !.staged_deletes = {},
                                 !.staged_moves = {}],
                     "clear_staged", NoPath, NoPath, "Ok")
    /\ VfsQuiet

\* The errors validate_staged collects, by kind. Whatever order the HashMap
\* yields the moves in, two moves of one destination make one of them find
\* the destination already in the set.
validate_staged_errors(v) ==
    {"PathNotFound" : m \in {m \in v.staged_moves : ~contains_key(v, m[1])}}
    \cup {"PathCollision" : m \in {m \in v.staged_moves :
              /\ contains_key(v, m[1])
              /\ \E o \in v.staged_moves :
                    o # m /\ contains_key(v, o[1]) /\ o[2] = m[2]}}
    \cup {"PathCollision" : c \in {c \in v.staged_creates :
              \E m \in v.staged_moves : contains_key(v, m[1]) /\ m[2] = c}}
    \cup {"PathNotFound" : d \in {d \in v.staged_deletes : ~contains_key(v, d)}}

\* validate_staged reads the VFS and changes nothing in it.
validate_staged ==
    /\ vfs.calls > 0
    /\ vfs.last.op # "validate_staged"
    /\ vfs' = [vfs EXCEPT !.last =
            [op |-> "validate_staged", src |-> NoPath, dest |-> NoPath,
             ret |-> IF validate_staged_errors(vfs) = {} THEN "Ok" ELSE "Err",
             before |-> vfs.staged_moves]]
    /\ VfsQuiet

InitVfs ==
    /\ vfs = new(root)
    /\ dg = <<>>
    /\ bld = <<>>
    /\ MoreIdle
    /\ disk = <<>>
    /\ opt = OptOff
    /\ plan = <<>>
    /\ journal = <<>>
    /\ ExecIdle
    /\ AwIdle

NextVfs ==
    \/ insert
    \/ stage_move
    \/ stage_create_folder
    \/ stage_delete
    \/ clear_staged
    \/ validate_staged

SpecVfs == InitVfs /\ [][NextVfs]_vars

\* C19: stage_move(a, b) returns CycleDetected exactly when b equals a or b
\* lies under a, whatever else the VFS holds or has staged.
C19_CycleIffSelfOrDescendant ==
    vfs.last.op = "stage_move"
        => (vfs.last.ret = "CycleDetected"
                <=> starts_with(vfs.last.dest, vfs.last.src))

\* C19, as the code has it: stage_move(a, b) returns CycleDetected exactly
\* when a exists, b does not and b lies strictly under a; a move of a onto
\* itself or onto something under it is rejected in every case, with
\* PathNotFound, PathCollision or CycleDetected.
C19_CycleIffFreeDescendantOfLiveSource ==
    vfs.last.op = "stage_move" =>
        /\ vfs.last.ret = "CycleDetected"
            <=> /\ vfs_exists(vfs, vfs.last.src)
                /\ ~vfs_exists(vfs, vfs.last.dest)
                /\ starts_with(vfs.last.dest, vfs.last.src)
                /\ vfs.last.dest # vfs.last.src
        /\ starts_with(vfs.last.dest, vfs.last.src)
            => vfs.last.ret \in {"PathNotFound", "PathCollision", "CycleDetected"}

\* A move into a path staged for deletion under the source is a cycle, and a
\* move of an existing path onto itself has been rejected as a collision.
C19_Witness ==
    /\ vfs.last.op = "stage_move"
    /\ vfs.last.ret = "CycleDetected"
    /\ vfs.last.src # root
    /\ vfs.last.dest \in vfs.staged_deletes

\* C20: a stage_move(c, b) made while a move of another source a to b is
\* staged returns PathCollision, and no two staged moves share a destination.
C20_NoDuplicateDestination ==
    /\ (vfs.last.op = "stage_move"
            /\ \E m \in vfs.last.before :
                m[2] = vfs.last.dest /\ m[1] # vfs.last.src)
        => vfs.last.ret = "PathCollision"
    /\ \A m1 \in vfs.staged_moves, m2 \in vfs.staged_moves :
        m1[2] = m2[2] => m1 = m2

\* The parent of p exists and is not staged for deletion, or is staged for
\* creation.
parent_available(v, p) ==
    vfs_exists(v, parent(p)) \/ parent(p) \in v.staged_creates

\* C21: when validate_staged returns Ok, no two staged moves share a
\* destination, no staged create is a staged move's destination, every staged
\* move's source exists and is not staged for deletion, and the parent of
\* every staged move destination and of every staged create is available.
C21_ValidatedStagedConsistent ==
    (vfs.last.op = "validate_staged" /\ vfs.last.ret = "Ok") =>
        /\ \A m1 \in vfs.staged_moves, m2 \in vfs.staged_moves :
                m1[2] = m2[2] => m1 = m2
        /\ \A m \in vfs.staged_moves : m[2] \notin vfs.staged_creates
        /\ \A m \in vfs.staged_moves : vfs_exists(vfs, m[1])
        /\ \A m \in vfs.staged_moves : parent_available(vfs, m[2])
        /\ \A c \in vfs.staged_creates : parent_available(vfs, c)

(***************************************************************************)
(* The rule planner's VFS (ai/v2/vfs.rs): the scanned files and the list   *)
(* of planned operations that apply_rules builds.                          *)
(***************************************************************************)

\* The operation cap, 5000 in the code, scaled to the size of the model.
MAX_OPERATIONS == 3

MaxCalls == 2

\* The files a scan may have found under the root, and the one directory.
ScanFiles == {<<"root", "p">>, <<"root", "q">>, <<"root", "D", "p">>}

ScanDir == <<"root", "D">>

\* A condition that matches every file, one on the file's name, and one
\* that RuleParser::parse rejects.
Conditions == {"true", "file.name == 'p'", "file.name =="}

parse_ok(condition) == condition # "file.name =="

\* RuleEvaluator::evaluate(..).unwrap_or(false)
evaluate(condition, f) ==
    \/ condition = "true"
    \/ condition = "file.name == 'p'" /\ basename(f) = "p"

\* then_move_to: none, a folder relative to the root, an absolute folder.
MoveTargets ==
    {<<>>, <<[abs |-> FALSE, p |-> <<"D">>]>>, <<[abs |-> TRUE, p |-> <<"root", "E">>]>>}

\* An OrganizationRule; an Option is the sequence of what it holds.
OrganizationRule ==
    [condition : Conditions, then_move_to : MoveTargets,
     then_rename_to : {<<>>, <<"{name}.bak">>}, priority : {<<>>, <<-1>>, <<1>>}]

\* The rule lists given to apply_rules; a rule's name is its place in the list.
Named(r, i) ==
    [name |-> i, condition |-> r.condition, then_move_to |-> r.then_move_to,
     then_rename_to |-> r.then_rename_to, priority |-> r.priority]

RuleLists ==
    {<<Named(r, 1)>> : r \in OrganizationRule}
        \cup {<<Named(r1, 1), Named(r2, 2)>> : r1 \in OrganizationRule, r2 \in OrganizationRule}

\* r.priority.unwrap_or(0)
priority_key(r) == IF r.priority = <<>> THEN 0 ELSE r.priority[1]

\* sorted_rules.sort_by_key(|r| Reverse(r.priority.unwrap_or(0))): stable,
\* descending; an insertion sort from the right.
RECURSIVE sort_rules(_)
sort_rules(rules) ==
    IF rules = <<>> THEN <<>>
    ELSE LET h    == Head(rules)
             rest == sort_rules(Tail(rules))
             k    == Cardinality({i \in DOMAIN rest : priority_key(rest[i]) > priority_key(h)})
         IN  SubSeq(rest, 1, k) \o <<h>> \o SubSeq(rest, k + 1, Len(rest))

rv_contains_key(v, p) == p \in v.dirs \/ \E i \in DOMAIN v.order : v.order[i] = p

PlannedOperation(id, type, source, destination, path, new_name, rule_name) ==
    [op_id |-> id, op_type |-> type, source |-> source, destination |-> destination,
     path |-> path, new_name |-> new_name, rule_name |-> rule_name]

\* The body of the loop over a rule's matching files.
plan_file(st, rule, f, v) ==
    LET dest_path == IF rule.then_move_to[1].abs
                     THEN rule.then_move_to[1].p
                     ELSE root \o rule.then_move_to[1].p
        moved ==
            IF rule.then_move_to = <<>> THEN st
            ELSE [st EXCEPT
                    !.folders = IF dest_path \notin @ /\ ~rv_contains_key(v, dest_path)
                                THEN @ \cup {dest_path} ELSE @,
                    !.op_counter = @ + 1,
                    !.operations = Append(@, PlannedOperation(st.op_counter + 1, "Move",
                                        f, join(dest_path, basename(f)), NoPath, <<>>, rule.name)),
                    !.created = @ + 1]
        renamed ==
            IF rule.then_rename_to = <<>> THEN moved
            ELSE [moved EXCEPT
                    !.op_counter = @ + 1,
                    !.operations = Append(@, PlannedOperation(moved.op_counter + 1, "Rename",
                                        NoPath, NoPath, f, <<basename(f), "bak">>, rule.name)),
                    !.created = @ + 1]
    IN  [renamed EXCEPT
            !.processed = @ \cup {f},
            !.err = IF Len(renamed.operations) > MAX_OPERATIONS
                    THEN "OperationLimitExceeded" ELSE ""]

RECURSIVE plan_files(_, _, _, _)
plan_files(st, rule, fs, v) ==
    IF fs = <<>> \/ st.err # "" THEN st
    ELSE plan_files(plan_file(st, rule, Head(fs), v), rule, Tail(fs), v)

\* A file matches whatever rule it satisfies, processed or not.
matching_any(st, rule, v) ==
    SelectSeq(v.order, LAMBDA f : evaluate(rule.condition, f))

\* The files of the VFS, in the map's order, that no earlier rule has taken
\* and that the rule's condition holds for.
matching_files(st, rule, v) ==
    SelectSeq(v.order, LAMBDA f : f \notin st.processed /\ evaluate(rule.condition, f))

\* The loop over the sorted rules; a parse error returns at once.
RECURSIVE plan_rules(_, _, _)
plan_rules(st, rules, v) ==
    IF rules = <<>> \/ st.err # "" THEN st
    ELSE IF ~parse_ok(Head(rules).condition)
         THEN [st EXCEPT !.err = "Failed to parse rule"]
         ELSE plan_rules(plan_files(st, Head(rules), matching_files(st, Head(rules), v), v),
                         Tail(rules), v)

\* The CreateFolder operations, in the order the HashSet yields the folders.
folder_ops(fo, counter) ==
    [i \in DOMAIN fo |->
        PlannedOperation(counter + i, "CreateFolder", NoPath, NoPath, fo[i], <<>>, 0)]

RvQuiet == UNCHANGED <<disk, opt, execVars, awVars, dg, bld, vfs, call>>

apply_rules ==
    /\ rv.calls < MaxCalls
    /\ \E mode \in {"append", "replace"} :
        LET st0 == [operations |-> IF mode = "replace" THEN <<>> ELSE rv.operations,
                    op_counter |-> rv.op_counter, processed |-> {}, folders |-> {},
                    created |-> 0, err |-> ""]
            st  == plan_rules(st0, sort_rules(rv.rules), rv)
            was == [mode |-> mode, before |-> rv.operations, first_id |-> rv.op_counter,
                    ret |-> IF st.err = "" THEN "Ok" ELSE st.err, created |-> st.created]
        IN  IF st.err # ""
            THEN rv' = [rv EXCEPT !.operations = st.operations, !.op_counter = st.op_counter,
                                  !.calls = @ + 1, !.last = was]
            ELSE \E fo \in Orders(st.folders) :
                    rv' = [rv EXCEPT
                            !.operations = folder_ops(fo, st.op_counter) \o st.operations,
                            !.op_counter = st.op_counter + Len(fo),
                            !.calls = @ + 1, !.last = was]
    /\ RvQuiet

\* ShadowVFS::clear_operations
clear_operations ==
    /\ rv.calls > 0
    /\ rv.calls < MaxCalls
    /\ rv.operations # <<>>
    /\ rv' = [rv EXCEPT !.operations = <<>>, !.calls = @ + 1,
                        !.last = [@ EXCEPT !.mode = "clear", !.before = rv.operations,
                                           !.first_id = rv.op_counter, !.ret = "Ok",
                                           !.created = 0]]
    /\ RvQuiet

\* ShadowVFS::new after the scan: the files in the map's iteration order, the
\* directory when the scan met it, no operation planned; and the rules the
\* planner is going to be given.
InitRules ==
    /\ \E fs \in SUBSET ScanFiles, rules \in RuleLists :
        /\ fs # {}
        /\ \E order \in Orders(fs), dirs \in SUBSET {ScanDir} :
            /\ (<<"root", "D", "p">> \in fs) => ScanDir \in dirs
            /\ rv = [order |-> order, dirs |-> dirs, rules |-> rules,
                     operations |-> <<>>, op_counter |-> 0, calls |-> 0,
                     last |-> [mode |-> "", before |-> <<>>, first_id |-> 0,
                               ret |-> "", created |-> 0]]
    /\ call = <<>>
    /\ dg = <<>>
    /\ bld = <<>>
    /\ vfs = <<>>
    /\ disk = <<>>
    /\ opt = OptOff
    /\ plan = <<>>
    /\ journal = <<>>
    /\ ExecIdle
    /\ AwIdle

NextRules == apply_rules \/ clear_operations

SpecRules == InitRules /\ [][NextRules]_vars

AppliedRules == rv.last.mode \in {"append", "replace"}

\* The operations that the last call added.
NewOps == {i \in DOMAIN rv.operations : rv.operations[i].op_id > rv.last.first_id}

\* The new operations of a rule on a file.
OpsOf(r, f, type) ==
    {i \in NewOps : /\ rv.operations[i].op_type = type
                    /\ rv.operations[i].rule_name = r.name
                    /\ f \in {rv.operations[i].source, rv.operations[i].path}}

RuleSet == {rv.rules[i] : i \in DOMAIN rv.rules}

\* r comes before o: higher priority, or the same priority and given earlier.
Before(r, o) ==
    \/ priority_key(r) > priority_key(o)
    \/ priority_key(r) = priority_key(o) /\ r.name < o.name

\* r is the first of the rules in rs, in priority order, that f satisfies.
FirstMatch(r, f, rs) ==
    /\ r \in rs
    /\ evaluate(r.condition, f)
    /\ \A o \in rs : (evaluate(o.condition, f) /\ o # r) => Before(r, o)

\* What rule r owes file f: one Move if it moves, one Rename if it renames.
Contributed(r, f) ==
    /\ Cardinality(OpsOf(r, f, "Move")) = IF r.then_move_to = <<>> THEN 0 ELSE 1
    /\ Cardinality(OpsOf(r, f, "Rename")) = IF r.then_rename_to = <<>> THEN 0 ELSE 1

Files == {rv.order[i] : i \in DOMAIN rv.order}

\* C22: an apply_rules that fails on the operation cap leaves the operation
\* list as it was before the call.
C22_CapLeavesNoPartialState ==
    (AppliedRules /\ rv.last.ret = "OperationLimitExceeded")
        => rv.operations = rv.last.before

\* C23: when a rule's condition does not parse, that rule adds nothing and
\* every other rule still gives each file it is the first match of its
\* operations.
C23_ParseErrorSkipsOneRule ==
    (AppliedRules /\ rv.last.ret # "OperationLimitExceeded"
        /\ \E b \in RuleSet : ~parse_ok(b.condition))
        => \A r \in RuleSet, f \in Files :
            /\ ~parse_ok(r.condition) =>
                  OpsOf(r, f, "Move") \cup OpsOf(r, f, "Rename") = {}
            /\ FirstMatch(r, f, {o \in RuleSet : parse_ok(o.condition)})
                  => Contributed(r, f)

\* C24: in one apply_rules call a file gets operations from no rule but the
\* first, in descending priority with ties in the given order and a missing
\* priority as 0, that it satisfies; a call that succeeds gives it that
\* rule's operations.
C24_FirstMatchingRuleOnly ==
    AppliedRules =>
        \A r \in RuleSet, f \in Files :
            /\ ~FirstMatch(r, f, RuleSet) =>
                  OpsOf(r, f, "Move") \cup OpsOf(r, f, "Rename") = {}
            /\ (rv.last.ret = "Ok" /\ FirstMatch(r, f, RuleSet)) => Contributed(r, f)

\* A successful call with two rules that one file satisfies, the rule given
\* second having the higher priority and having planned the file's move.
C24_Witness ==
    /\ AppliedRules
    /\ rv.last.ret = "Ok"
    /\ Len(rv.rules) = 2
    /\ \E f \in Files :
        /\ evaluate(rv.rules[1].condition, f)
        /\ FirstMatch(rv.rules[2], f, RuleSet)
        /\ OpsOf(rv.rules[2], f, "Move") # {}
        /\ rv.rules[1].then_move_to # <<>>

Moves == {i \in DOMAIN rv.operations : rv.operations[i].op_type = "Move"}

\* C25: every Move into a folder that the VFS does not hold comes after a
\* CreateFolder of that folder, and no folder has two CreateFolder operations.
C25_FoldersCreatedOnceBeforeMoves ==
    /\ \A i \in Moves :
        ~rv_contains_key(rv, parent(rv.operations[i].destination))
            => \E j \in 1..(i - 1) :
                /\ rv.operations[j].op_type = "CreateFolder"
                /\ rv.operations[j].path = parent(rv.operations[i].destination)
    /\ \A i \in DOMAIN rv.operations, j \in DOMAIN rv.operations :
        (/\ rv.operations[i].op_type = "CreateFolder"
         /\ rv.operations[j].op_type = "CreateFolder"
         /\ rv.operations[i].path = rv.operations[j].path) => i = j

\* C26: no two planned Moves have the same destination and no planned Move
\* has a destination that exists in the VFS.
C26_MoveDestinationsFree ==
    /\ \A i \in Moves, j \in Moves :
        rv.operations[i].destination = rv.operations[j].destination => i = j
    /\ \A i \in Moves : ~rv_contains_key(rv, rv.operations[i].destination)

\* C27: no planned Move has its source as its destination.
C27_NoMoveOntoItself ==
    \A i \in Moves : rv.operations[i].destination # rv.operations[i].source

MaxComponents == 3

\* The components after the root or after the current directory: "..", "."
\* and two names.
Components == {"..", ".", "b", "d"}

ComponentLists == UNION {[1..n -> Components] : n \in 0..MaxComponents}

\* A path as given: absolute or relative, and its components.
GivenPaths == [abs : BOOLEAN, comps : ComponentLists]

\* std::env::current_dir()
current_dir == <<"b">>

\* A ".." that is passed over instead of popping.
normalize_no_pop(normalized, component) ==
    IF component \in {".", ".."} THEN normalized
    ELSE Append(normalized, component)

\* One arm of the match in normalize_path; pop at the root does nothing.
normalize_component(normalized, component) ==
    IF component = "." THEN normalized
    ELSE IF component = ".."
    THEN (IF normalized = <<>> THEN normalized
          ELSE SubSeq(normalized, 1, Len(normalized) - 1))
    ELSE Append(normalized, component)

RECURSIVE normalize_components(_, _)
normalize_components(comps, normalized) ==
    IF comps = <<>> THEN normalized
    ELSE normalize_components(Tail(comps), normalize_component(normalized, Head(comps)))

normalize_path(path) ==
    normalize_components(IF path.abs THEN path.comps ELSE current_dir \o path.comps, <<>>)

validate_path_within(path, base) ==
    LET normalized_path == normalize_path(path)
        normalized_base == normalize_path(base)
        relative == SubSeq(normalized_path, Len(normalized_base) + 1, Len(normalized_path))
    IN  IF ~starts_with(normalized_path, normalized_base)
        THEN "Path is outside allowed directory"
        ELSE IF \E i \in DOMAIN relative : relative[i] = ".."
        THEN "Path traversal detected"
        ELSE "Ok"

GuardQuiet == UNCHANGED <<disk, opt, execVars, awVars, dg, bld, vfs, rv>>

call_is_protected_path ==
    /\ call.fn = ""
    /\ \E p \in Paths :
        call' = [fn |-> "is_protected_path", path |-> p, base |-> NoPath,
                 ret |-> IF is_protected_path(p) THEN "true" ELSE "false"]
    /\ GuardQuiet

call_validate_path_within ==
    /\ call.fn = ""
    /\ \E path \in GivenPaths, base \in GivenPaths :
        call' = [fn |-> "validate_path_within", path |-> path, base |-> base,
                 ret |-> validate_path_within(path, base)]
    /\ GuardQuiet

InitGuard ==
    /\ call = [fn |-> "", path |-> NoPath, base |-> NoPath, ret |-> ""]
    /\ rv = <<>>
    /\ dg = <<>>
    /\ bld = <<>>
    /\ vfs = <<>>
    /\ disk = <<>>
    /\ opt = OptOff
    /\ plan = <<>>
    /\ journal = <<>>
    /\ ExecIdle
    /\ AwIdle

NextGuard == call_is_protected_path \/ call_validate_path_within

SpecGuard == InitGuard /\ [][NextGuard]_vars

\* C29: is_protected_path(p) is true exactly when p is the filesystem root, a
\* listed system directory, the home directory itself, or a child of a
\* protected directory that is not under the home directory; it is false for
\* every path strictly below the home directory.
C29_ProtectedExactly ==
    call.fn = "is_protected_path" =>
        LET p == call.path
            listed == {protected_paths[i] : i \in DOMAIN protected_paths}
        IN  /\ call.ret = "true"
                <=> \/ p \in listed
                    \/ p = home_dir
                    \/ /\ Len(p) > 0
                       /\ parent(p) \in listed
                       /\ ~starts_with(p, home_dir)
            /\ (starts_with(p, home_dir) /\ p # home_dir) => call.ret = "false"

\* Lexical normalization read from the right: a ".." cancels the nearest
\* name to its left, and is dropped when there is none.
RECURSIVE lexical(_, _)
lexical(comps, skip) ==
    IF comps = <<>> THEN <<>>
    ELSE LET last == comps[Len(comps)]
             init == SubSeq(comps, 1, Len(comps) - 1)
         IN  IF last = "." THEN lexical(init, skip)
             ELSE IF last = ".." THEN lexical(init, skip + 1)
             ELSE IF skip > 0 THEN lexical(init, skip - 1)
             ELSE Append(lexical(init, 0), last)

Absolute(path) == IF path.abs THEN path.comps ELSE current_dir \o path.comps

\* C30: validate_path_within(path, base) accepts exactly the paths whose
\* lexical normalization has the normalized base as a strict prefix, the
\* base itself being rejected.
C30_WithinStrictly ==
    call.fn = "validate_path_within" =>
        LET np == lexical(Absolute(call.path), 0)
            nb == lexical(Absolute(call.base), 0)
        IN  call.ret = "Ok" <=> (starts_with(np, nb) /\ np # nb)

\* C30, as the code has it: the accepted paths are those whose lexical
\* normalization is the normalized base or lies under it.
C30_WithinOrBase ==
    call.fn = "validate_path_within" =>
        LET np == lexical(Absolute(call.path), 0)
            nb == lexical(Absolute(call.base), 0)
        IN  call.ret = "Ok" <=> starts_with(np, nb)

\* A relative path that leaves the base through ".." and comes back into it
\* has been accepted.
C30_Witness ==
    /\ call.fn = "validate_path_within"
    /\ call.ret = "Ok"
    /\ ~call.path.abs
    /\ call.path.comps = <<"..", "b", "d">>
    /\ call.base = [abs |-> TRUE, comps |-> <<"b">>]

(***************************************************************************)
(* The ExecutionResult of execute_journal.                                 *)
(***************************************************************************)
\* The operations of the run that returned Err.
FailedOps == {e \in Entries : task[e].pc = "done" /\ ~task[e].res.ok}

\* execute_journal returned Ok(ExecutionResult).
ReturnedResult == run.mode = "journal" /\ run.pc = "done" /\ run.ret \in {"success", "partial"}

\* C31: the ExecutionResult of execute_journal has success = true exactly
\* when no operation failed; with success, completed_count is the number of
\* Pending and InProgress entries the journal held at load; without it,
\* failed_count is at least 1 and errors holds one message per failed
\* operation.
C31_ResultCounts ==
    ReturnedResult =>
        LET success == run.ret = "success" IN
        /\ success <=> FailedOps = {}
        /\ success => run.completed = Cardinality(pending_entries(run.loaded))
        /\ ~success => /\ run.failed >= 1
                       /\ Len(run.errors) = run.failed
                       /\ run.failed = Cardinality(FailedOps)

C31_Witness ==
    /\ ReturnedResult
    /\ run.ret = "partial"
    /\ run.completed >= 1
    /\ run.failed >= 1

\* C32: within one execute_journal run each entry's operation is dispatched
\* at most once, whether it succeeds or fails, and an entry that is
\* Completed, Failed or Skipped when the journal is loaded is never
\* dispatched.
C32_DispatchedAtMostOnce ==
    run.mode = "journal" =>
        \A e \in Entries :
            /\ Cardinality(At(hist[e], "op")) <= 1
            /\ run.loaded[e].status \in {"Completed", "Failed", "Skipped"}
                   => (At(hist[e], "op") = {} /\ task[e].pc = "idle")

C32_Witness ==
    /\ run.mode = "journal"
    /\ run.pc = "done"
    /\ \E e \in Entries : run.loaded[e].status = "Completed"
    /\ \E e \in Entries : /\ run.loaded[e].status = "InProgress"
                          /\ At(hist[e], "op") # {}
                          /\ ~task[e].res.ok
    /\ \E e \in Entries : /\ run.loaded[e].status = "Pending"
                          /\ At(hist[e], "op") # {}
                          /\ task[e].res.ok

\* C37: when execute_journal returns, no entry of the journal is left
\* InProgress: every entry the run dispatched is Completed or Failed.
C37_NoneLeftInProgress ==
    (run.mode = "journal" /\ run.pc = "done") =>
        \A e \in Entries :
            /\ journal[e].status # "InProgress"
            /\ At(hist[e], "op") # {} => journal[e].status \in {"Completed", "Failed"}

\* The journal a run loaded holds a Failed entry with a Pending dependent.
FailedWithPendingDependent ==
    /\ run.mode = "journal"
    /\ \E f \in Entries, d \in Entries :
          /\ f \in plan.deps[d]
          /\ run.loaded[f].status = "Failed"
          /\ run.loaded[d].status = "Pending"

\* C38: an execute_journal run on a journal that holds a Failed entry with
\* Pending dependents returns DependencyNotFound before any entry is marked
\* InProgress, executes no operation, and leaves the filesystem and every
\* entry status as they were.
C38_FailedDependencyStopsRun ==
    /\ [](FailedWithPendingDependent =>
            /\ run.pc = "done"
            /\ run.ret = "DependencyNotFound"
            /\ journal = run.loaded
            /\ \A e \in Entries : task[e].pc = "idle" /\ hist[e] = <<>>)
    /\ [][FailedWithPendingDependent => UNCHANGED <<disk, journal>>]_vars

C38_Witness ==
    /\ FailedWithPendingDependent
    /\ run.ret = "DependencyNotFound"
    /\ \E e \in Entries : run.loaded[e].status = "Completed"

(***************************************************************************)
(* The read views of the ShadowVFS (vfs/graph.rs). A view is the set of    *)
(* paths whose nodes it returns. What a node's name, content preview and   *)
(* children list hold is the caller's data: `named` and `content` are the  *)
(* paths whose node matches a query by name and by content, `children`     *)
(* the list of the directory asked for.                                    *)
(***************************************************************************)
\* ShadowVFS::get: the kind of the node, "none" for None.
get(v, path) ==
    IF path \in v.staged_deletes THEN "none"
    ELSE v.nodes[path]

\* get_by_type without the test of staged_deletes.
get_by_type_staged(v, node_type) ==
    {p \in VfsPaths : contains_key(v, p) /\ v.nodes[p] = node_type}

get_by_type(v, node_type) ==
    {p \in VfsPaths : contains_key(v, p) /\ p \notin v.staged_deletes /\ v.nodes[p] = node_type}

files(v) == get_by_type(v, "file")

directories(v) == get_by_type(v, "directory")

\* list_dir: an error, or the children that are not staged for deletion and
\* are in the node map.
list_dir(v, path, children) ==
    IF get(v, path) = "none" THEN [err |-> "PathNotFound", nodes |-> {}]
    ELSE IF get(v, path) # "directory" THEN [err |-> "InvalidOperation", nodes |-> {}]
    ELSE [err |-> "",
          nodes |-> {c \in children : c \notin v.staged_deletes /\ contains_key(v, c)}]

search_content(v, content, named) ==
    {p \in VfsPaths : /\ contains_key(v, p)
                      /\ p \notin v.staged_deletes
                      /\ (p \in content \/ p \in named)}

search_name(v, named) ==
    {p \in VfsPaths : contains_key(v, p) /\ p \notin v.staged_deletes /\ p \in named}

iter(v) == {p \in VfsPaths : contains_key(v, p) /\ p \notin v.staged_deletes}

\* No read view returns the node at p.
Hidden(v, p) ==
    /\ get(v, p) = "none"
    /\ ~vfs_exists(v, p)
    /\ p \notin files(v)
    /\ p \notin directories(v)
    /\ p \notin iter(v)
    /\ \A named \in SUBSET VfsPaths :
          /\ p \notin search_name(v, named)
          /\ \A content \in {{}, {p}, VfsPaths} : p \notin search_content(v, content, named)
    /\ \A children \in SUBSET VfsPaths : p \notin list_dir(v, parent(p), children).nodes

\* C33: after stage_delete(p) succeeds, p is in no read view of the VFS
\* (get, exists, files, directories, list_dir of its parent, search_name,
\* search_content, iter) until clear_staged is called, and the node stays
\* in the node map.
C33_StagedDeleteHidden ==
    /\ []((vfs.last.op = "stage_delete" /\ vfs.last.ret = "Ok")
             => vfs.last.src \in vfs.staged_deletes)
    /\ [](\A p \in vfs.staged_deletes : contains_key(vfs, p) /\ Hidden(vfs, p))
    /\ [][\A p \in vfs.staged_deletes :
             p \in vfs'.staged_deletes \/ vfs'.last.op = "clear_staged"]_vars

C33_Witness ==
    /\ vfs.last.op = "stage_move"
    /\ vfs.last.ret = "Ok"
    /\ \E p \in vfs.staged_deletes :
          /\ vfs.nodes[p] = "file"
          /\ vfs.nodes[parent(p)] = "directory"
          /\ parent(p) # root
          /\ parent(p) \in directories(vfs)
          /\ files(vfs) # {}

(***************************************************************************)
(* The size bookkeeping of the ShadowVFS (vfs/graph.rs): insert and remove *)
(* with each node's size and the running total_size_bytes.                 *)
(***************************************************************************)
MaxSize == 2

MaxNodeCalls == 3

\* ShadowVFS::new with the sizes: the root directory, a total of 0.
new_sized(r) ==
    [nodes |-> [p \in VfsPaths |-> IF p = r THEN "directory" ELSE "none"],
     size |-> [p \in VfsPaths |-> 0],
     total_size_bytes |-> 0,
     calls |-> 0]

\* ShadowVFS::insert: the size of a file is added, the node is put in the
\* map in place of whatever the map held at its path.
vfs_insert(v, node) ==
    [v EXCEPT !.total_size_bytes = IF node.kind = "file" THEN @ + node.size ELSE @,
              !.nodes[node.path] = node.kind,
              !.size[node.path] = node.size]

\* ShadowVFS::remove: the size of a removed file is subtracted, saturating
\* at 0; a path that is not in the map changes nothing.
vfs_remove(v, path) ==
    IF contains_key(v, path)
    THEN [v EXCEPT !.total_size_bytes =
                       IF v.nodes[path] = "file"
                       THEN (IF @ >= v.size[path] THEN @ - v.size[path] ELSE 0)
                       ELSE @,
                   !.nodes[path] = "none",
                   !.size[path] = 0]
    ELSE v

\* The nodes a caller may insert: a directory, or a file with its size.
FileNodes ==
    {[path |-> p, kind |-> "directory", size |-> 0] : p \in VfsPaths}
    \cup {[path |-> p, kind |-> "file", size |-> n] : p \in VfsPaths \ {root}, n \in 0..MaxSize}

insert_node ==
    /\ vfs.calls < MaxNodeCalls
    /\ \E node \in FileNodes :
        vfs' = [vfs_insert(vfs, node) EXCEPT !.calls = @ + 1]
    /\ VfsQuiet

remove_node ==
    /\ vfs.calls < MaxNodeCalls
    /\ \E path \in VfsPaths :
        vfs' = [vfs_remove(vfs, path) EXCEPT !.calls = @ + 1]
    /\ VfsQuiet

InitSize ==
    /\ vfs = new_sized(root)
    /\ dg = <<>>
    /\ bld = <<>>
    /\ MoreIdle
    /\ disk = <<>>
    /\ opt = OptOff
    /\ plan = <<>>
    /\ journal = <<>>
    /\ ExecIdle
    /\ AwIdle

NextSize ==
    \/ insert_node
    \/ remove_node

SpecSize == InitSize /\ [][NextSize]_vars

\* The sum of the sizes of the file nodes at the paths S.
RECURSIVE file_sizes(_, _)
file_sizes(v, S) ==
    IF S = {} THEN 0
    ELSE LET p == CHOOSE q \in S : TRUE
         IN  (IF v.nodes[p] = "file" THEN v.size[p] ELSE 0) + file_sizes(v, S \ {p})

\* C39: after any sequence of insert and remove calls total_size() is the
\* sum of the sizes of the file nodes in the node map, also when insert
\* replaces a node at the same path.
C39_TotalSizeIsSum ==
    vfs.total_size_bytes = file_sizes(vfs, VfsPaths)

(***************************************************************************)
(* query_semantic (ai/v2/vfs.rs). The similarity of a file to the query    *)
(* comes from the vector index and is an input here: an error, NaN, or a   *)
(* number. A file is named by its place in the order in which files()      *)
(* yields the map's values.                                                *)
(***************************************************************************)
MaxResults == 2

NoneOpt == <<>>

\* An f32, and the Result<f32, String> of vector_index.similarity.
F32(n) == [ok |-> TRUE, nan |-> FALSE, v |-> n]

NaN == [ok |-> TRUE, nan |-> TRUE, v |-> 0]

SimilarityErr == [ok |-> FALSE, nan |-> FALSE, v |-> 0]

Scores == {SimilarityErr, NaN, F32(1), F32(2)}

Exts == {NoneOpt, <<"md">>, <<"TXT">>}

VirtualFile == [ext : Exts, size : {0, 1}, score : Scores]

QueryFiles == [{1, 2, 3} -> VirtualFile]

to_lowercase(x) == IF x = "TXT" THEN "txt" ELSE IF x = "Md" THEN "md" ELSE x

\* The extension filter of the closure: None lets every file through.
ext_passes(file, filter_ext) ==
    \/ filter_ext = NoneOpt
    \/ /\ file.ext # NoneOpt
       /\ \E i \in DOMAIN filter_ext[1] :
             to_lowercase(filter_ext[1][i]) = to_lowercase(file.ext[1])

size_passes(file, min_size_bytes) ==
    \/ min_size_bytes = NoneOpt
    \/ file.size >= min_size_bytes[1]

\* Every score the index returns passes.
any_score(score, min_similarity) == score.ok

\* Ok(score) if score >= min_similarity: a comparison with NaN is false.
similar_enough(score, min_similarity) ==
    /\ score.ok
    /\ ~score.nan
    /\ ~min_similarity.nan
    /\ score.v >= min_similarity.v

\* The filter_map over files(): the pairs (file, score) kept, in map order.
RECURSIVE filter_map(_, _, _, _, _)
filter_map(fs, i, filter_ext, min_size_bytes, min_similarity) ==
    IF i > Len(fs) THEN <<>>
    ELSE LET rest == filter_map(fs, i + 1, filter_ext, min_size_bytes, min_similarity)
         IN  IF /\ ext_passes(fs[i], filter_ext)
                /\ size_passes(fs[i], min_size_bytes)
                /\ similar_enough(fs[i].score, min_similarity)
             THEN <<[file |-> i, score |-> fs[i].score]>> \o rest
             ELSE rest

\* b.1.partial_cmp(&a.1).unwrap_or(Equal) gives Less: a goes before b.
sorts_before(a, b) == ~a.score.nan /\ ~b.score.nan /\ a.score.v > b.score.v

\* results.sort_by(..): stable; an insertion sort from the right.
RECURSIVE sort_by(_)
sort_by(results) ==
    IF results = <<>> THEN <<>>
    ELSE LET h    == Head(results)
             rest == sort_by(Tail(results))
             k    == Cardinality({i \in DOMAIN rest : sorts_before(rest[i], h)})
         IN  SubSeq(rest, 1, k) \o <<h>> \o SubSeq(rest, k + 1, Len(rest))

truncate(results, len) == IF Len(results) > len THEN SubSeq(results, 1, len) ELSE results

query_semantic(fs, filter_ext, min_size_bytes, max_results, min_similarity) ==
    truncate(sort_by(filter_map(fs, 1, filter_ext, min_size_bytes, min_similarity)), max_results)

NoQuery ==
    [fn |-> "", filter_ext |-> NoneOpt, min_size_bytes |-> NoneOpt, max_results |-> 0,
     min_similarity |-> NaN, ret |-> <<>>]

call_query_semantic ==
    /\ call.fn = ""
    /\ \E filter_ext \in {NoneOpt, << <<"txt">> >>, << <<"Md", "txt">> >>},
          min_size_bytes \in {NoneOpt, <<1>>},
          max_results \in 0..MaxResults,
          min_similarity \in {NaN, F32(1), F32(2)} :
        call' = [call EXCEPT
                   !.fn = "query_semantic",
                   !.filter_ext = filter_ext,
                   !.min_size_bytes = min_size_bytes,
                   !.max_results = max_results,
                   !.min_similarity = min_similarity,
                   !.ret = query_semantic(call.files, filter_ext, min_size_bytes,
                                          max_results, min_similarity)]
    /\ GuardQuiet

InitQuery ==
    /\ \E fs \in QueryFiles : call = [NoQuery EXCEPT !.fn = ""] @@ [files |-> fs]
    /\ rv = <<>>
    /\ dg = <<>>
    /\ bld = <<>>
    /\ vfs = <<>>
    /\ disk = <<>>
    /\ opt = OptOff
    /\ plan = <<>>
    /\ journal = <<>>
    /\ ExecIdle
    /\ AwIdle

NextQuery == call_query_semantic

SpecQuery == InitQuery /\ [][NextQuery]_vars

\* The files of the call that pass both filters and score at least
\* min_similarity.
Eligible ==
    {i \in DOMAIN call.files :
        LET f == call.files[i] IN
        /\ \/ call.filter_ext = NoneOpt
           \/ f.ext \in {<<"TXT">>} /\ \E j \in DOMAIN call.filter_ext[1] : call.filter_ext[1][j] = "txt"
           \/ f.ext \in {<<"md">>} /\ \E j \in DOMAIN call.filter_ext[1] : call.filter_ext[1][j] = "Md"
        /\ call.min_size_bytes = NoneOpt \/ f.size >= call.min_size_bytes[1]
        /\ f.score \in {F32(1), F32(2)}
        /\ call.min_similarity # NaN
        /\ f.score.v >= call.min_similarity.v}

Returned34 == {call.ret[k].file : k \in DOMAIN call.ret}

\* C34: query_semantic returns at most max_results files, each passing the
\* extension and minimum-size filters with a similarity of at least
\* min_similarity, in order of non-increasing similarity, and every eligible
\* file left out scores no higher than every file returned.
C34_TopResults ==
    call.fn = "query_semantic" =>
        /\ Len(call.ret) <= call.max_results
        /\ \A k \in DOMAIN call.ret :
              /\ call.ret[k].file \in Eligible
              /\ call.ret[k].score = call.files[call.ret[k].file].score
        /\ \A k \in DOMAIN call.ret, l \in DOMAIN call.ret :
              k < l => call.ret[k].score.v >= call.ret[l].score.v
        /\ \A i \in Eligible \ Returned34 :
              \A k \in DOMAIN call.ret : call.files[i].score.v <= call.ret[k].score.v

C34_Witness ==
    /\ call.fn = "query_semantic"
    /\ call.filter_ext # NoneOpt
    /\ Len(call.ret) = 2
    /\ call.ret[1].file > call.ret[2].file
    /\ Eligible \ Returned34 # {}

(***************************************************************************)
(* atomic_write: what an error return leaves, and two calls at once.       *)
(***************************************************************************)
SafeIoErrorKind == {"WriteError", "SyncError", "RenameError", "PathError"}

\* C36: whenever atomic_write returns an error, the target still holds the
\* contents it had before the call and no temp file is left in the
\* directory.
C36_ErrorLeavesTarget ==
    [][\A t \in Threads :
         (/\ aw.th[t].pc # "idle"
          /\ aw'.th[t].pc = "idle"
          /\ aw'.th[t].ret \in SafeIoErrorKind)
         => /\ TargetView' = aw.old
            /\ store'.dir[temp_name(aw.pid)] = 0]_vars

(***************************************************************************)
(* Specification SpecAWConcurrent: the threads of one process call         *)
(* atomic_write on the journal file at the same time; nothing fails and    *)
(* the process lives.                                                      *)
(***************************************************************************)
NextAWConcurrent ==
    \E t \in Threads :
        \/ aw_enter(t)
        \/ aw_open(t)
        \/ aw_write(t)
        \/ aw_sync(t)
        \/ aw_rename(t)
        \/ sync_directory(t)

SpecAWConcurrent == InitAW /\ [][NextAWConcurrent]_vars

\* C35: two concurrent atomic_write calls to one target from one process
\* never leave the target holding anything but a complete payload, and the
\* data a call wrote to the temp file is whole when the call renames it
\* into place.
C35_ConcurrentWritesWhole ==
    /\ TargetView \in aw.complete
    /\ \A t \in Threads :
          aw.th[t].pc = "rename" => /\ store.dir[temp_name(aw.pid)] = aw.th[t].fd
                                    /\ store.ino[aw.th[t].fd].mem = aw.th[t].data

(***************************************************************************)
(* preview_operations (ai/v2/vfs.rs) on the rule planner's VFS.            *)
(***************************************************************************)
\* a - b on usize: with overflow checks the subtraction panics when b > a,
\* without them it wraps; a wrapped result stands for 2^64 - v.
usize_sub(a, b, overflow_checks) ==
    IF a >= b THEN [panic |-> FALSE, wrapped |-> FALSE, v |-> a - b]
    ELSE IF overflow_checks THEN [panic |-> TRUE, wrapped |-> FALSE, v |-> 0]
    ELSE [panic |-> FALSE, wrapped |-> TRUE, v |-> b - a]

\* The key an operation is grouped under; the rule name 0 stands for
\* "manual".
group_key(op, group_by) ==
    CASE group_by = "operation_type" -> <<op.op_type>>
      [] group_by = "rule_name" -> <<op.rule_name>>
      [] OTHER -> <<"unknown">>

preview_operations(v, group_by, include_unchanged, overflow_checks) ==
    LET keys == {group_key(v.operations[i], group_by) : i \in DOMAIN v.operations}
        groups == [k \in keys |->
                     SelectSeq(v.operations, LAMBDA op : group_key(op, group_by) = k)]
        unchanged_count == IF include_unchanged
                           THEN usize_sub(Len(v.order), Len(v.operations), overflow_checks)
                           ELSE [panic |-> FALSE, wrapped |-> FALSE, v |-> 0]
    IN  [panic |-> unchanged_count.panic,
         groups |-> IF unchanged_count.panic THEN <<>> ELSE groups,
         total_operations |-> Len(v.operations),
         unchanged_files |-> unchanged_count]

call_preview_operations ==
    /\ call = <<>>
    /\ \E group_by \in {"operation_type", "rule_name", "size"},
          include_unchanged \in BOOLEAN, overflow_checks \in BOOLEAN :
        call' = [fn |-> "preview_operations", group_by |-> group_by,
                 include_unchanged |-> include_unchanged,
                 ret |-> preview_operations(rv, group_by, include_unchanged, overflow_checks)]
    /\ GuardQuiet

\* The planner's calls, then one preview of what they planned.
NextPreview ==
    \/ call = <<>> /\ apply_rules
    \/ call = <<>> /\ clear_operations
    \/ call_preview_operations

SpecPreview == InitRules /\ [][NextPreview]_vars

\* C40: preview_operations with include_unchanged = true reports
\* unchanged_files as the number of files minus the number of planned
\* operations, and the unsigned subtraction never underflows.
C40_UnchangedFilesNoUnderflow ==
    (call # <<>> /\ call.include_unchanged) =>
        /\ ~call.ret.panic
        /\ ~call.ret.unchanged_files.wrapped
        /\ Len(rv.order) >= Len(rv.operations)
        /\ call.ret.unchanged_files.v = Len(rv.order) - Len(rv.operations)

====
